---- MODULE Spec2Model ----
(***************************************************************************)
(* Model of the lai-code local control plane:                              *)
(*   - the IPC server of the desktop application (src-tauri/src/ipc.rs),   *)
(*     with the conversation store it dispatches into;                     *)
(*   - the process runners (cli/src/main.rs execute_command and            *)
(*     src-tauri/src/commands/run.rs run_code) and the audit log.          *)
(* Spec is the IPC server. SpecSeq is the runners and the audit log used by *)
(* one caller at a time; SpecRun adds failing system calls; SpecConc has   *)
(* concurrent calls of run_code and rotate_audit.                          *)
(* The handlers of `last` and `create` reach the store through             *)
(* tokio::runtime::Handle::current().block_on on a thread made with        *)
(* std::thread; the model takes that call to return a handle, that is, the *)
(* thread to have a runtime context.                                       *)
(***************************************************************************)
EXTENDS Integers, Sequences, FiniteSets, TLC

\* ------------------------------------------------------------------ bounds
MaxConns == 2
MaxLines == 2
MaxInv == 2
MaxTimeout == 1
MaxElapsed == 2
MaxRotates == 2
EntryBytes == 64

\* ------------------------------------------------------- program constants
\* ipc.rs: const MAX_MESSAGE_SIZE: usize = 1024 * 1024
MAX_MESSAGE_SIZE == 1048576

\* ---------------------------------------------------------------- options
\* Option<T>: None is the empty sequence, Some(x) the one-element sequence.
None == <<>>
Some(x) == <<x>>
IsSome(o) == Len(o) = 1
Unwrap(o) == o[1]

\* ------------------------------------------------------- the DEV_MODE flag
\* Strings whose letters matter are sequences of one-character strings.
ToLowerChar(ch) ==
    CASE ch = "A" -> "a"
      [] ch = "B" -> "b"
      [] ch = "C" -> "c"
      [] ch = "D" -> "d"
      [] ch = "E" -> "e"
      [] ch = "F" -> "f"
      [] ch = "G" -> "g"
      [] ch = "H" -> "h"
      [] ch = "I" -> "i"
      [] ch = "J" -> "j"
      [] ch = "K" -> "k"
      [] ch = "L" -> "l"
      [] ch = "M" -> "m"
      [] ch = "N" -> "n"
      [] ch = "O" -> "o"
      [] ch = "P" -> "p"
      [] ch = "Q" -> "q"
      [] ch = "R" -> "r"
      [] ch = "S" -> "s"
      [] ch = "T" -> "t"
      [] ch = "U" -> "u"
      [] ch = "V" -> "v"
      [] ch = "W" -> "w"
      [] ch = "X" -> "x"
      [] ch = "Y" -> "y"
      [] ch = "Z" -> "z"
      [] OTHER -> ch

ToLower(s) == [i \in 1..Len(s) |-> ToLowerChar(s[i])]

RECURSIVE TrimStart(_)
TrimStart(s) ==
    IF s # <<>> /\ Head(s) = " " THEN TrimStart(Tail(s)) ELSE s

RECURSIVE TrimEnd(_)
TrimEnd(s) ==
    IF s # <<>> /\ s[Len(s)] = " " THEN TrimEnd(SubSeq(s, 1, Len(s) - 1)) ELSE s

Trim(s) == TrimEnd(TrimStart(s))

\* str::contains: sub occurs in s as a run of consecutive characters.
Contains(s, sub) ==
    \E k \in 0..(Len(s) - Len(sub)) : SubSeq(s, k + 1, k + Len(sub)) = sub

\* format!("{}", n) of an integer: its decimal digits, with a sign.
RECURSIVE Digits(_)
Digits(n) ==
    IF n < 0 THEN <<"-">> \o Digits(0 - n)
    ELSE IF n < 10 THEN <<(<<"0", "1", "2", "3", "4", "5", "6", "7", "8", "9">>)[n + 1]>>
    ELSE Digits(n \div 10) \o Digits(n % 10)

\* Mutant of SplitWhitespace: str::split(' '), which keeps empty parts.
RECURSIVE SplitOnSpaces(_)
SplitOnSpaces(s) ==
    IF s = <<>> THEN << <<>> >>
    ELSE LET rest == SplitOnSpaces(Tail(s))
         IN  IF Head(s) = " " THEN << <<>> >> \o rest
             ELSE << <<Head(s)>> \o Head(rest) >> \o Tail(rest)

\* str::split_whitespace: the maximal runs of characters that are not
\* whitespace.
RECURSIVE SplitWhitespace(_)
SplitWhitespace(s) ==
    IF s = <<>> THEN <<>>
    ELSE IF Head(s) \in {" ", "\t", "\n"} THEN SplitWhitespace(Tail(s))
    ELSE LET rest == SplitWhitespace(Tail(s))
         IN  IF Len(s) > 1 /\ s[2] \notin {" ", "\t", "\n"}
             THEN << <<Head(s)>> \o Head(rest) >> \o Tail(rest)
             ELSE << <<Head(s)>> >> \o rest

\* The values the environment variable DEV_MODE takes in the model:
\* unset, or set to one of these strings.
EnvStrings ==
    { <<"1">>, <<" ", "Y", "e", "s">>, <<"o", "n">> }

EnvValues == {None} \cup {Some(s) : s \in EnvStrings}

\* start_ipc_server: match std::env::var("DEV_MODE")
DevModeFlag(env) ==
    IF IsSome(env)
    THEN LET v == ToLower(Trim(Unwrap(env)))
         IN  v # <<>> /\ (v = <<"1">> \/ v = <<"t", "r", "u", "e">> \/ v = <<"y", "e", "s">>)
    ELSE FALSE

\* ------------------------------------------------------------ wire values
Conns == 1..MaxConns

\* A conversation id no conversation of the store ever has (a made-up uuid).
UnknownId == 99

NoCid == [tag |-> "none", id |-> 0]
NoPayload == [tag |-> "none", content |-> None, cid |-> NoCid]

\* The JSON values a client puts in "payload": absent, null, a number, or an
\* object with an optional string "content" and an optional "conversation_id"
\* that is a string or a number.
CidValues ==
    {NoCid, [tag |-> "num", id |-> 0]}
        \cup {[tag |-> "str", id |-> i] : i \in (1..MaxLines) \cup {UnknownId}}

PayloadValues ==
    {NoPayload,
     [tag |-> "null", content |-> None, cid |-> NoCid],
     [tag |-> "num", content |-> None, cid |-> NoCid]}
        \cup {[tag |-> "obj", content |-> Some("hi"), cid |-> cid] : cid \in CidValues}

\* One line of the byte stream a client writes: its length in bytes, its form
\* (blank, not UTF-8, text that is no Envelope, or an Envelope object) and, for
\* an Envelope, its fields.
BlankLine == [len |-> 1, form |-> "blank", kind |-> "", message |-> None, payload |-> NoPayload]
BadUtf8Line == [len |-> 8, form |-> "badutf8", kind |-> "", message |-> None, payload |-> NoPayload]
GarbageLine == [len |-> 8, form |-> "garbage", kind |-> "", message |-> None, payload |-> NoPayload]

EnvelopeLine(len, kind, message, payload) ==
    [len |-> len, form |-> "envelope", kind |-> kind, message |-> message, payload |-> payload]

LineValues ==
    {BlankLine, BadUtf8Line, GarbageLine,
     EnvelopeLine(MAX_MESSAGE_SIZE + 1, "notify", Some("hi"), NoPayload),
     EnvelopeLine(MAX_MESSAGE_SIZE, "last", None, NoPayload),
     EnvelopeLine(64, "notify", Some("hi"), NoPayload),
     EnvelopeLine(64, "ask", Some("hi"), NoPayload),
     EnvelopeLine(64, "ask", None, [tag |-> "obj", content |-> Some("hi"), cid |-> NoCid]),
     EnvelopeLine(64, "ping", None, NoPayload)}
        \cup {EnvelopeLine(64, "create", None, p) : p \in PayloadValues}

\* IpcMessage as serde deserializes it: payload is Option<JsonValue>, and both
\* a missing key and a JSON null give None.
NoMessage == [kind |-> "", message |-> None, payload |-> None]

ParseIpcMessage(line) ==
    IF line.form = "envelope"
    THEN Some([kind |-> line.kind,
               message |-> line.message,
               payload |-> IF line.payload.tag \in {"none", "null"}
                           THEN None ELSE Some(line.payload)])
    ELSE None

\* ------------------------------------------------------ conversation store
\* by: the connection and the request (its line number on that connection)
\* whose handling inserted the row; <<0, 0>> for rows that were there before.
NoBy == <<0, 0>>

NoMsg ==
    [id |-> 0, conversation_id |-> 0, role |-> "", content |-> "",
     timestamp |-> 0, deleted |-> FALSE, by |-> NoBy]

\* IpcResponse: status and Option<JsonValue> data; data is absent, {error: e}
\* or a serialized Message.
Response(status, tag, error, msg) ==
    [status |-> status, data |-> [tag |-> tag, error |-> error, msg |-> msg]]

OkEmpty == Response("ok", "none", "", NoMsg)
OkMessage(m) == Response("ok", "message", "", m)
ErrorResponse(e) == Response("error", "error", e, NoMsg)

VARIABLES
    envDevMode,        \* the environment variable DEV_MODE of the process
    server,            \* "init", "listening" or "bind_failed"
    dev_mode_enabled,  \* start_ipc_server's local, moved into every handler
    connPc,            \* per connection: where its handler thread is
    inbox,             \* per connection: lines written by the peer, not yet read
    peerClosed,        \* per connection: the peer has closed its sending side
    reqs,              \* per connection: the lines read so far, in order
    cur,               \* per connection: the IpcMessage being handled
    convId,            \* per connection: handle_create_message's conv_id
    resp,              \* per connection: the IpcResponse about to be written
    out,               \* per connection: the responses written, in order
    processed,         \* per connection: metrics.messages_processed
    convs,             \* table conversations, in insertion order
    msgs,              \* table messages, in insertion order
    events,            \* the UI events emitted with app.emit
    now,               \* the system clock, in seconds
    sent,              \* lines written by all clients so far
    held               \* per connection: the handler thread holds the
                       \* MutexGuard of the store's connection

ipcVars ==
    <<envDevMode, server, dev_mode_enabled, connPc, inbox, peerClosed, reqs, cur,
      convId, resp, out, processed, convs, msgs, events, now, sent, held>>

\* The state of the process runners and of the audit log.
VARIABLES
    run,       \* per invocation: the runner's locals, its child, its history
    logIno,    \* the inode ./executions.log names, 0 when there is no such file
    bakIno,    \* the inode ./executions.log.1 names, 0 when there is none
    inodes,    \* the content of every file created so far, by inode number
    fs0,       \* what the two files held when the program started
    rot        \* the caller of rotate_audit: its position, calls and result

runVars == <<run, logIno, bakIno, inodes, fs0, rot>>

\* The state of one run of the command-line client.
VARIABLES
    cli,       \* the command, the place in main, the requests made so far with
               \* what came back, what was printed, and the exit status
    call       \* the last call of a function taken on its own: its name, its
               \* arguments and what it returned

cliVars == <<cli, call>>

\* The stores the application can start with: empty, or one conversation
\* holding one assistant message.
InitStores ==
    { [convs |-> <<>>, msgs |-> <<>>],
      [convs |-> <<[id |-> 1, updated_at |-> 0, deleted |-> FALSE, by |-> NoBy]>>,
       msgs |-> <<[id |-> 1, conversation_id |-> 1, role |-> "assistant",
                   content |-> "old", timestamp |-> 0, deleted |-> FALSE, by |-> NoBy]>>] }

\* The server before start_ipc_server has run: no listener, no connection.
InitServer ==
    /\ server = "init"
    /\ dev_mode_enabled = FALSE
    /\ connPc = [c \in Conns |-> "none"]
    /\ inbox = [c \in Conns |-> <<>>]
    /\ peerClosed = [c \in Conns |-> FALSE]
    /\ reqs = [c \in Conns |-> <<>>]
    /\ cur = [c \in Conns |-> NoMessage]
    /\ convId = [c \in Conns |-> 0]
    /\ resp = [c \in Conns |-> OkEmpty]
    /\ out = [c \in Conns |-> <<>>]
    /\ processed = [c \in Conns |-> 0]
    /\ events = <<>>
    /\ now = 0
    /\ sent = 0
    /\ held = [c \in Conns |-> FALSE]

InitIpc ==
    /\ envDevMode \in EnvValues
    /\ InitServer
    /\ \E s \in InitStores : convs = s.convs /\ msgs = s.msgs

\* ------------------------------------------------------- store operations
ConvExists(cs, id) == \E i \in 1..Len(cs) : cs[i].id = id

\* Conversation::create: a fresh uuid, created_at = updated_at = now.
ConversationCreate(cs, t, by) ==
    Append(cs, [id |-> Len(cs) + 1, updated_at |-> t, deleted |-> FALSE, by |-> by])

\* Conversation::touch: UPDATE conversations SET updated_at = now WHERE id = ?
ConversationTouch(cs, id, t) ==
    [i \in 1..Len(cs) |-> IF cs[i].id = id THEN [cs[i] EXCEPT !.updated_at = t] ELSE cs[i]]

NewMessageRow(ms, cid, role, content, t, by) ==
    [id |-> Len(ms) + 1, conversation_id |-> cid, role |-> role, content |-> content,
     timestamp |-> t, deleted |-> FALSE, by |-> by]

\* Message::create: INSERT INTO messages, refused by the foreign key (PRAGMA
\* foreign_keys = ON) and by CHECK(role IN ...), then Conversation::touch.
\* The result is the store after the call and Ok(message) or Err.
MessageCreate(cs, ms, cid, role, content, t, by) ==
    IF ConvExists(cs, cid) /\ role \in {"user", "assistant", "system"}
    THEN [ok |-> TRUE,
          convs |-> ConversationTouch(cs, cid, t),
          msgs |-> Append(ms, NewMessageRow(ms, cid, role, content, t, by)),
          created |-> NewMessageRow(ms, cid, role, content, t, by)]
    ELSE [ok |-> FALSE, convs |-> cs, msgs |-> ms, created |-> NoMsg]

\* commands::messages::create_message: Message::create and, when
\* DEV_ECHO_RESPONSES is set and the created message has role "user", a second
\* insert of an assistant echo whose result is ignored.
CreateMessageCommand(cs, ms, cid, role, content, t, by, echo) ==
    LET first == MessageCreate(cs, ms, cid, role, content, t, by)
    IN  IF first.ok /\ echo /\ first.created.role = "user"
        THEN LET second == MessageCreate(first.convs, first.msgs, cid, "assistant",
                                         "Echo", t, by)
             IN  [first EXCEPT !.convs = second.convs, !.msgs = second.msgs]
        ELSE first

\* Conversation::get_all(conn, 1): WHERE deleted = 0 ORDER BY updated_at DESC
\* LIMIT 1. Rows with equal updated_at come in an order SQL leaves open, so
\* this is the set of rows the query can return.
MostRecentConversations(cs) ==
    {i \in 1..Len(cs) :
        /\ ~cs[i].deleted
        /\ \A j \in 1..Len(cs) : ~cs[j].deleted => cs[j].updated_at <= cs[i].updated_at}

\* Mutant of LatestAssistantMessages: the role is not looked at.
LatestMessagesAnyRole(ms, cid) ==
    {i \in 1..Len(ms) :
        /\ ms[i].conversation_id = cid /\ ~ms[i].deleted
        /\ \A j \in 1..Len(ms) :
              (ms[j].conversation_id = cid /\ ~ms[j].deleted)
                  => ms[j].timestamp <= ms[i].timestamp}

\* SELECT ... WHERE conversation_id = ? AND role = 'assistant' AND deleted = 0
\* ORDER BY timestamp DESC LIMIT 1
LatestAssistantMessages(ms, cid) ==
    {i \in 1..Len(ms) :
        /\ ms[i].conversation_id = cid /\ ms[i].role = "assistant" /\ ~ms[i].deleted
        /\ \A j \in 1..Len(ms) :
              (ms[j].conversation_id = cid /\ ms[j].role = "assistant" /\ ~ms[j].deleted)
                  => ms[j].timestamp <= ms[i].timestamp}

\* get_last_assistant_message: the results the command can return.
GetLastAssistantMessage(cs, ms) ==
    IF MostRecentConversations(cs) = {}
    THEN {None}
    ELSE UNION { IF LatestAssistantMessages(ms, cs[i].id) = {}
                 THEN {None}
                 ELSE {Some(ms[k]) : k \in LatestAssistantMessages(ms, cs[i].id)}
               : i \in MostRecentConversations(cs) }

\* handle_last_message
HandleLastMessage(result) ==
    IF IsSome(result) THEN OkMessage(Unwrap(result)) ELSE ErrorResponse("No messages found")

\* ------------------------------------------------------------ IPC actions
storeVars == <<convs, msgs>>
clientVars == <<inbox, peerClosed, sent>>

\* The process environment changes the variable DEV_MODE (std::env::set_var
\* anywhere in the process), before or after the server has started.
SetEnv(v) ==
    /\ v # envDevMode
    /\ envDevMode' = v
    /\ UNCHANGED <<server, dev_mode_enabled, connPc, inbox, peerClosed, reqs, cur, convId,
                   resp, out, processed, convs, msgs, events, now, sent>>
    /\ UNCHANGED <<held, runVars, cliVars>>

\* start_ipc_server: reads DEV_MODE once, then binds; a failed bind returns
\* without a listener.
StartIpcServer ==
    /\ server = "init"
    /\ dev_mode_enabled' = DevModeFlag(envDevMode)
    /\ \/ server' = "listening"
       \/ server' = "bind_failed"
    /\ UNCHANGED <<envDevMode, connPc, inbox, peerClosed, reqs, cur, convId, resp, out,
                   processed, convs, msgs, events, now, sent>>
    /\ UNCHANGED <<held, runVars, cliVars>>

\* The accept loop: one handler thread per accepted connection (connections
\* are numbered in the order they are accepted).
Accept(c) ==
    /\ server = "listening"
    /\ connPc[c] = "none"
    /\ \A d \in Conns : d < c => connPc[d] # "none"
    /\ connPc' = [connPc EXCEPT ![c] = "idle"]
    /\ UNCHANGED <<envDevMode, server, dev_mode_enabled, inbox, peerClosed, reqs, cur,
                   convId, resp, out, processed, convs, msgs, events, now, sent>>
    /\ UNCHANGED <<held, runVars, cliVars>>

\* A client writes one line. A conversation id it names is one it has seen
\* (an existing conversation) or one that no conversation has. It can write
\* after the handler has ended: nobody reads those bytes.
ClientSend(c, line) ==
    /\ connPc[c] # "none"
    /\ ~peerClosed[c]
    /\ sent < MaxLines
    /\ line.payload.cid.tag = "str" =>
          (ConvExists(convs, line.payload.cid.id) \/ line.payload.cid.id = UnknownId)
    /\ inbox' = [inbox EXCEPT ![c] = Append(@, line)]
    /\ sent' = sent + 1
    /\ UNCHANGED <<envDevMode, server, dev_mode_enabled, connPc, peerClosed, reqs, cur,
                   convId, resp, out, processed, convs, msgs, events, now>>
    /\ UNCHANGED <<held, runVars, cliVars>>

\* Mutant of ClientCall: the call writes on a connection already used.
ClientCallReusing(c, line) ==
    /\ line.form = "envelope"
    /\ ClientSend(c, line)

\* send_ipc and send_ipc_with_response: TcpStream::connect_timeout gives the
\* call a connection of its own, on which nothing was written before, and
\* the call writes one serialized IpcMessage and a line feed on it. The
\* stream is a local of the call: it is closed when the call returns
\* (ClientClose).
ClientCall(c, line) ==
    /\ line.form = "envelope"
    /\ reqs[c] = <<>> /\ inbox[c] = <<>>
    /\ ClientSend(c, line)

\* A client closes its side of the connection.
ClientClose(c) ==
    /\ connPc[c] \notin {"none", "closed"}
    /\ ~peerClosed[c]
    /\ peerClosed' = [peerClosed EXCEPT ![c] = TRUE]
    /\ UNCHANGED <<envDevMode, server, dev_mode_enabled, connPc, inbox, reqs, cur, convId,
                   resp, out, processed, convs, msgs, events, now, sent>>
    /\ UNCHANGED <<held, runVars, cliVars>>

\* Mutant of WriteResponse: the response goes out twice.
WriteResponseTwice(o, n, r) ==
    Append(Append(o, [req |-> n, resp |-> r]), [req |-> n, resp |-> r])

\* write_response: one serialized IpcResponse and a newline on the stream.
\* out records each response with the number of the line it answers.
WriteResponse(o, n, r) == Append(o, [req |-> n, resp |-> r])

\* Mutant of ReadLine: a blank line is parsed like any other line.
ReadLineParsesBlank(c) ==
    /\ connPc[c] = "idle"
    /\ inbox[c] # <<>>
    /\ LET line == Head(inbox[c])
           n == Len(reqs[c]) + 1
           parsed == ParseIpcMessage(line)
       IN  /\ inbox' = [inbox EXCEPT ![c] = Tail(@)]
           /\ reqs' = [reqs EXCEPT ![c] = Append(@, line)]
           /\ IF line.form = "badutf8"
              THEN /\ connPc' = [connPc EXCEPT ![c] = "closed"]
                   /\ UNCHANGED <<cur, out, processed>>
              ELSE IF line.len > MAX_MESSAGE_SIZE
              THEN /\ out' = [out EXCEPT ![c] =
                                 WriteResponse(@, n, ErrorResponse("Message too large"))]
                   /\ UNCHANGED <<connPc, cur, processed>>
              ELSE IF IsSome(parsed)
              THEN /\ processed' = [processed EXCEPT ![c] = @ + 1]
                   /\ cur' = [cur EXCEPT ![c] = Unwrap(parsed)]
                   /\ connPc' = [connPc EXCEPT ![c] = "handle"]
                   /\ UNCHANGED out
              ELSE /\ out' = [out EXCEPT ![c] =
                                 WriteResponse(@, n, ErrorResponse("Invalid JSON"))]
                   /\ UNCHANGED <<connPc, cur, processed>>
    /\ UNCHANGED <<envDevMode, server, dev_mode_enabled, peerClosed, convId, resp, convs,
                   msgs, events, now, sent>>
    /\ UNCHANGED <<held, runVars, cliVars>>

\* handle_client, one turn of the loop up to the dispatch: read_line, the size
\* check, trim_end, the parse.
ReadLine(c) ==
    /\ connPc[c] = "idle"
    /\ inbox[c] # <<>>
    /\ LET line == Head(inbox[c])
           n == Len(reqs[c]) + 1
           parsed == ParseIpcMessage(line)
       IN  /\ inbox' = [inbox EXCEPT ![c] = Tail(@)]
           /\ reqs' = [reqs EXCEPT ![c] = Append(@, line)]
           /\ IF line.form = "badutf8"
              THEN \* read_line returns Err: break
                   /\ connPc' = [connPc EXCEPT ![c] = "closed"]
                   /\ UNCHANGED <<cur, out, processed>>
              ELSE IF line.len > MAX_MESSAGE_SIZE
              THEN /\ out' = [out EXCEPT ![c] =
                                 WriteResponse(@, n, ErrorResponse("Message too large"))]
                   /\ UNCHANGED <<connPc, cur, processed>>
              ELSE IF line.form = "blank"
              THEN UNCHANGED <<connPc, cur, out, processed>>
              ELSE IF IsSome(parsed)
              THEN /\ processed' = [processed EXCEPT ![c] = @ + 1]
                   /\ cur' = [cur EXCEPT ![c] = Unwrap(parsed)]
                   /\ connPc' = [connPc EXCEPT ![c] = "handle"]
                   /\ UNCHANGED out
              ELSE /\ out' = [out EXCEPT ![c] =
                                 WriteResponse(@, n, ErrorResponse("Invalid JSON"))]
                   /\ UNCHANGED <<connPc, cur, processed>>
    /\ UNCHANGED <<envDevMode, server, dev_mode_enabled, peerClosed, convId, resp, convs,
                   msgs, events, now, sent>>
    /\ UNCHANGED <<held, runVars, cliVars>>

\* Mutant of ReadEof: the handler writes an error Response before it ends.
ReadEofSaysGoodbye(c) ==
    /\ connPc[c] = "idle"
    /\ inbox[c] = <<>>
    /\ peerClosed[c]
    /\ connPc' = [connPc EXCEPT ![c] = "closed"]
    /\ out' = [out EXCEPT ![c] =
                  WriteResponse(@, Len(reqs[c]), ErrorResponse("Connection closed"))]
    /\ UNCHANGED <<envDevMode, server, dev_mode_enabled, inbox, peerClosed, reqs, cur,
                   convId, resp, processed, convs, msgs, events, now, sent>>
    /\ UNCHANGED <<held, runVars, cliVars>>

\* handle_client: read_line returns Ok(0) at end of stream: break.
ReadEof(c) ==
    /\ connPc[c] = "idle"
    /\ inbox[c] = <<>>
    /\ peerClosed[c]
    /\ connPc' = [connPc EXCEPT ![c] = "closed"]
    /\ UNCHANGED <<envDevMode, server, dev_mode_enabled, inbox, peerClosed, reqs, cur,
                   convId, resp, out, processed, convs, msgs, events, now, sent>>
    /\ UNCHANGED <<held, runVars, cliVars>>

\* handle_client: read_line returns Err (the read timeout expires with nothing
\* to read, or the connection is reset): break.
ReadError(c) ==
    /\ connPc[c] = "idle"
    /\ inbox[c] = <<>>
    /\ ~peerClosed[c]
    /\ connPc' = [connPc EXCEPT ![c] = "closed"]
    /\ UNCHANGED <<envDevMode, server, dev_mode_enabled, inbox, peerClosed, reqs, cur,
                   convId, resp, out, processed, convs, msgs, events, now, sent>>
    /\ UNCHANGED <<held, runVars, cliVars>>

\* Mutant of DevModeGate: the gate reads DEV_MODE at every dispatch.
DevModeGateReadsEnv == DevModeFlag(envDevMode)

\* handle_message: `if dev_mode_enabled`, the flag handle_client was given.
DevModeGate == dev_mode_enabled

\* Mutant of CreateRole: the message is inserted with role user.
CreateRoleUser == "user"

\* handle_create_message: the role it passes to create_message.
CreateRole == "assistant"

\* handle_create_message: payload.get("content").and_then(as_str)
\*     .unwrap_or("Test message")
CreateContent(payload) ==
    IF payload.tag = "obj" /\ IsSome(payload.content)
    THEN Unwrap(payload.content) ELSE "Test message"

\* handle_create_message: payload.get("conversation_id").and_then(as_str)
CreateConversationId(payload) ==
    IF payload.tag = "obj" /\ payload.cid.tag = "str" THEN Some(payload.cid.id) ELSE None

UiEvent(name, text, payload) == [name |-> name, text |-> text, payload |-> payload]

\* handle_message, "notify": app.emit("cli://notify",
\*     msg.message.as_deref().unwrap_or_default())
NotifyEvent(msg) ==
    UiEvent("cli://notify", IF IsSome(msg.message) THEN Unwrap(msg.message) ELSE "", None)

\* Mutant of AskEvent: the payload is never forwarded.
AskEventMessageOnly(msg) ==
    UiEvent("cli://ask", IF IsSome(msg.message) THEN Unwrap(msg.message) ELSE "", None)

\* handle_message, "ask": the payload when there is one, otherwise the message.
AskEvent(msg) ==
    IF IsSome(msg.payload)
    THEN UiEvent("cli://ask", "", msg.payload)
    ELSE UiEvent("cli://ask", IF IsSome(msg.message) THEN Unwrap(msg.message) ELSE "", None)

\* Mutant of UnknownKindResponse: an unknown kind is refused.
UnknownKindError == ErrorResponse("Unknown command")

\* handle_message, `_ =>`: unknown commands are ignored gracefully.
UnknownKindResponse == OkEmpty

\* Mutant of GuardAfterReturn: the guard outlives the command.
GuardKeptAfterReturn == TRUE

\* get_last_assistant_message and create_message: `let conn =
\* db.conn().lock()` is a local of the command, dropped when it returns; TRUE
\* would say the caller still holds the lock.
GuardAfterReturn == FALSE

\* Mutant of GuardAfterBlock: the guard lives to the end of the function.
GuardKeptAfterBlock == TRUE

\* handle_create_message: the guard `conn` is a local of the else block that
\* creates the conversation, dropped at the end of that block.
GuardAfterBlock == FALSE

\* handle_message up to the response, and for `create` with dev mode on
\* handle_create_message up to the call of create_message: without a
\* conversation id the store is locked, a conversation is created and the
\* lock is released.
HandleMessage(c) ==
    /\ connPc[c] = "handle"
    /\ LET msg == cur[c]
           n == Len(reqs[c])
           toWrite(r) ==
               /\ resp' = [resp EXCEPT ![c] = r]
               /\ connPc' = [connPc EXCEPT ![c] = "write"]
       IN  CASE msg.kind = "notify" ->
                  /\ events' = Append(events, NotifyEvent(msg))
                  /\ toWrite(OkEmpty)
                  /\ UNCHANGED <<convId, convs, held>>
             [] msg.kind = "ask" ->
                  /\ events' = Append(events, AskEvent(msg))
                  /\ toWrite(OkEmpty)
                  /\ UNCHANGED <<convId, convs, held>>
             [] msg.kind = "last" ->
                  /\ \A d \in Conns : ~held[d]
                  /\ \E r \in GetLastAssistantMessage(convs, msgs) :
                        toWrite(HandleLastMessage(r))
                  /\ held' = [held EXCEPT ![c] = GuardAfterReturn]
                  /\ UNCHANGED <<convId, convs, events>>
             [] msg.kind = "create" ->
                  IF ~DevModeGate
                  THEN /\ toWrite(ErrorResponse("create command only available in DEV_MODE"))
                       /\ UNCHANGED <<convId, convs, events, held>>
                  ELSE IF ~IsSome(msg.payload)
                  THEN /\ toWrite(ErrorResponse("No payload provided for create command"))
                       /\ UNCHANGED <<convId, convs, events, held>>
                  ELSE IF IsSome(CreateConversationId(Unwrap(msg.payload)))
                  THEN /\ convId' = [convId EXCEPT ![c] =
                                        Unwrap(CreateConversationId(Unwrap(msg.payload)))]
                       /\ connPc' = [connPc EXCEPT ![c] = "create_msg"]
                       /\ UNCHANGED <<resp, convs, events, held>>
                  ELSE /\ \A d \in Conns : ~held[d]
                       /\ held' = [held EXCEPT ![c] = GuardAfterBlock]
                       /\ convs' = ConversationCreate(convs, now, <<c, n>>)
                       /\ convId' = [convId EXCEPT ![c] = Len(convs) + 1]
                       /\ connPc' = [connPc EXCEPT ![c] = "create_msg"]
                       /\ UNCHANGED <<resp, events>>
             [] OTHER ->
                  /\ toWrite(UnknownKindResponse)
                  /\ UNCHANGED <<convId, convs, events, held>>
    /\ UNCHANGED <<envDevMode, server, dev_mode_enabled, inbox, peerClosed, reqs, cur, out,
                   processed, msgs, now, sent>>
    /\ UNCHANGED <<runVars, cliVars>>

\* handle_create_message: create_message(db, conv_id, "assistant", content,
\* None) under the store's lock, and the response built from its result.
\* `fail` makes the INSERT of Message::create fail (the database cannot be
\* written): create_message returns that error and the store is as it was.
CreateMessage(c, fail) ==
    /\ connPc[c] = "create_msg"
    /\ \A d \in Conns : ~held[d]
    /\ IF fail
       THEN /\ resp' = [resp EXCEPT ![c] = ErrorResponse("database error")]
            /\ UNCHANGED <<convs, msgs>>
       ELSE \E echo \in BOOLEAN :
          LET r == CreateMessageCommand(convs, msgs, convId[c], CreateRole,
                                        CreateContent(Unwrap(cur[c].payload)), now,
                                        <<c, Len(reqs[c])>>, echo)
          IN  /\ convs' = r.convs
              /\ msgs' = r.msgs
              /\ resp' = [resp EXCEPT ![c] =
                            IF r.ok THEN OkMessage(r.created)
                            ELSE ErrorResponse("FOREIGN KEY constraint failed")]
    /\ connPc' = [connPc EXCEPT ![c] = "write"]
    /\ held' = [held EXCEPT ![c] = GuardAfterReturn]
    /\ UNCHANGED <<envDevMode, server, dev_mode_enabled, inbox, peerClosed, reqs, cur,
                   convId, out, processed, events, now, sent>>
    /\ UNCHANGED <<runVars, cliVars>>

\* handle_message: let _ = write_response(stream, &response), then back to
\* the top of handle_client's loop.
SendResponse(c) ==
    /\ connPc[c] = "write"
    /\ out' = [out EXCEPT ![c] = WriteResponse(@, Len(reqs[c]), resp[c])]
    /\ connPc' = [connPc EXCEPT ![c] = "idle"]
    \* the locals of handle_message go out of scope
    /\ cur' = [cur EXCEPT ![c] = NoMessage]
    /\ convId' = [convId EXCEPT ![c] = 0]
    /\ resp' = [resp EXCEPT ![c] = OkEmpty]
    /\ UNCHANGED <<envDevMode, server, dev_mode_enabled, inbox, peerClosed, reqs,
                   processed, convs, msgs, events, now, sent>>
    /\ UNCHANGED <<held, runVars, cliVars>>

NextIpc ==
    \/ \E v \in EnvValues : SetEnv(v)
    \/ StartIpcServer
    \/ \E c \in Conns : Accept(c)
    \/ \E c \in Conns, line \in LineValues : ClientSend(c, line)
    \/ \E c \in Conns : ClientClose(c)
    \/ \E c \in Conns : ReadLine(c)
    \/ \E c \in Conns : ReadEof(c)
    \/ \E c \in Conns : ReadError(c)
    \/ \E c \in Conns : HandleMessage(c)
    \/ \E c \in Conns : CreateMessage(c, FALSE)
    \/ \E c \in Conns : SendResponse(c)

\* ===================================================== the process runners
\* cli/src/main.rs execute_command ("cli") and commands/run.rs run_code
\* ("app"). Time is counted in polling intervals of 50 ms.
Invs == 1..MaxInv
Timeouts == 0..MaxTimeout

\* run.rs: const MAX_LOG_BYTES: u64 = 1_048_576
MAX_LOG_BYTES == 1048576

\* std::thread::sleep(Duration::from_millis(50)): one unit of time.
PollInterval == 1

\* Mutant of StatusCode: a signal is reported as exit code -1.
StatusCodeOrMinusOne(status) ==
    CASE status = "exit0" -> Some(0)
      [] status = "exit1" -> Some(1)
      [] status = "exit127" -> Some(127)
      [] OTHER -> Some(-1)

\* ExitStatus::code(): the exit code, None when a signal ended the process.
StatusCode(status) ==
    CASE status = "exit0" -> Some(0)
      [] status = "exit1" -> Some(1)
      [] status = "exit127" -> Some(127)
      [] OTHER -> None

\* The elapsed-time test of the polling loop: execute_command has
\* `start.elapsed() >= timeout_duration`, run_code `start.elapsed() > timeout`.
TimeoutReached(kind, elapsed, timeout) ==
    IF kind = "cli" THEN elapsed >= timeout ELSE elapsed > timeout

\* Mutant of TimedOutFlag: the timeout branch leaves timed_out false.
TimedOutFlagForgotten == FALSE

\* The timeout branch: `timed_out = true` (execute_command), `timed_out: true`
\* (run_code).
TimedOutFlag == TRUE

\* One chunk of a file: who wrote it ("log0" and "bak0" are what the files
\* held when the program started, "run" a record appended by invocation
\* `who`) and its size in bytes.
Chunk(src, who, size) == [src |-> src, who |-> who, size |-> size]

\* append_audit: the entry of one invocation (metadata line, STDOUT, STDERR,
\* separator), EntryBytes long.
Entry(i) == Chunk("run", i, EntryBytes)

RECURSIVE FileSize(_)
FileSize(content) ==
    IF content = <<>> THEN 0 ELSE Head(content).size + FileSize(Tail(content))

NoRun ==
    [kind |-> "none", pc |-> "idle", timeout |-> 0, elapsed |-> 0, wake |-> 0,
     child |-> "none", status |-> "none", killed |-> FALSE,
     aliveAtDeadline |-> "n/a", lastPollAlive |-> FALSE,
     lastPollAtDeadline |-> FALSE, lastPollPastDeadline |-> FALSE,
     timed_out |-> FALSE, exit_code |-> None, result |-> "none",
     arg |-> None, error |-> <<>>, tmpCreated |-> FALSE, waitFailed |-> FALSE,
     stderr |-> <<>>, error_summary |-> None, pipeHeld |-> FALSE,
     pipeFull |-> FALSE,
     auditCalls |-> 0, auditRet |-> "none", written |-> 0, handle |-> 0,
     rotating |-> FALSE, ioFailed |-> FALSE, preLog |-> None, preBak |-> None]

FileContent(ino) == IF ino = 0 THEN None ELSE Some(inodes[ino])

\* The audit files the program can find when it starts: the log missing, at
\* the threshold, or over it; the backup missing or left by an earlier
\* rotation.
InitRun ==
    /\ run = [i \in Invs |-> NoRun]
    /\ rot = [pc |-> "idle", calls |-> 0, result |-> "none", removeFailed |-> FALSE,
              renamed |-> FALSE, prev |-> "none"]
    /\ \E log \in {None, Some(<<Chunk("log0", 0, MAX_LOG_BYTES)>>),
                   Some(<<Chunk("log0", 0, MAX_LOG_BYTES + 1)>>)},
          bak \in {None, Some(<<Chunk("bak0", 0, MAX_LOG_BYTES + 1)>>)} :
          /\ fs0 = [log |-> log, bak |-> bak]
          /\ inodes = (IF IsSome(log) THEN <<Unwrap(log)>> ELSE <<>>)
                          \o (IF IsSome(bak) THEN <<Unwrap(bak)>> ELSE <<>>)
          /\ logIno = IF IsSome(log) THEN 1 ELSE 0
          /\ bakIno = IF IsSome(bak) THEN (IF IsSome(log) THEN 2 ELSE 1) ELSE 0

\* ------------------------------------------------ the error classifier
\* Mutant of StderrLower: the patterns are looked for in stderr as it is.
StderrAsIs(stderr) == stderr

\* analyze_error_output: let stderr_lower = stderr.to_lowercase()
StderrLower(stderr) == ToLower(stderr)

\* Mutant of JoinParts: the parts are joined with a space.
RECURSIVE JoinPartsWithSpace(_)
JoinPartsWithSpace(parts) ==
    IF Len(parts) = 1 THEN parts[1]
    ELSE parts[1] \o <<" ">> \o JoinPartsWithSpace(Tail(parts))

\* Vec<String>::join("; ")
RECURSIVE JoinParts(_)
JoinParts(parts) ==
    IF Len(parts) = 1 THEN parts[1]
    ELSE parts[1] \o <<"; ">> \o JoinParts(Tail(parts))

\* analyze_error_output(stderr, _stdout, exit_code). A text is the sequence
\* of its pieces: a literal of the source is one piece, a formatted number
\* one piece per digit.
AnalyzeErrorOutput(stderr, exit_code) ==
    LET lower == StderrLower(stderr)
        has(pattern) == Contains(lower, pattern)
        exited ==
            IF IsSome(exit_code) /\ Unwrap(exit_code) # 0
            THEN << <<"Process exited with code ">> \o Digits(Unwrap(exit_code)) >>
            ELSE <<>>
        detected ==
            IF stderr # <<>>
            THEN << <<"Error output detected">> >>
                 \o (IF has(<<"p", "e", "r", "m", "i", "s", "s", "i", "o", "n", " ", "d", "e", "n", "i", "e", "d">>)
                     THEN << <<"Permission issue - try with sudo or check file permissions">> >>
                     ELSE <<>>)
                 \o (IF \/ has(<<"c", "o", "m", "m", "a", "n", "d", " ", "n", "o", "t", " ", "f", "o", "u", "n", "d">>)
                        \/ has(<<"n", "o", " ", "s", "u", "c", "h", " ", "f", "i", "l", "e">>)
                     THEN << <<"Command or file not found - check spelling and PATH">> >>
                     ELSE <<>>)
                 \o (IF /\ has(<<"c", "o", "n", "n", "e", "c", "t", "i", "o", "n">>)
                        /\ has(<<"r", "e", "f", "u", "s", "e", "d">>)
                     THEN << <<"Connection refused - check if service is running">> >>
                     ELSE <<>>)
                 \o (IF \/ has(<<"o", "u", "t", " ", "o", "f", " ", "m", "e", "m", "o", "r", "y">>)
                        \/ has(<<"o", "o", "m">>)
                     THEN << <<"Memory issue - consider freeing up memory or using less memory-intensive options">> >>
                     ELSE <<>>)
            ELSE <<>>
        analysis == exited \o detected
    IN  IF analysis = <<>>
        THEN <<"Command completed but may have issues">>
        ELSE JoinParts(analysis)

\* Mutant of SummaryNeeded: only the exit code is looked at.
SummaryNeededOnExitOnly(exit_code, stderr) ==
    (IF IsSome(exit_code) THEN Unwrap(exit_code) ELSE -1) # 0

\* execute_command: exit_code.unwrap_or(-1) != 0 || !stderr.is_empty()
SummaryNeeded(exit_code, stderr) ==
    \/ (IF IsSome(exit_code) THEN Unwrap(exit_code) ELSE -1) # 0
    \/ stderr # <<>>

\* Mutant of CollectResult: a command that failed is reported as an error.
CollectResultErrOnFailure(fail, exit_code) ==
    IF fail \/ exit_code # Some(0) THEN "Err" ELSE "Ok"

\* execute_command after the polling loop: `wait_with_output().map_err(..)?`
\* and then Ok(CaptureResult {..}) whatever the exit code is.
CollectResult(fail, exit_code) == IF fail THEN "Err" ELSE "Ok"

\* Mutant of SupportedLanguages: ruby is on the list.
SupportedLanguagesAndRuby ==
    {<<"b", "a", "s", "h">>, <<"s", "h">>, <<"z", "s", "h">>, <<"p", "y", "t", "h", "o", "n">>, <<"n", "o", "d", "e">>, <<"j", "a", "v", "a", "s", "c", "r", "i", "p", "t">>, <<"r", "u", "b", "y">>}

\* run_code: let supported = ["bash", "sh", "zsh", "python", "node", "javascript"]
SupportedLanguages ==
    {<<"b", "a", "s", "h">>, <<"s", "h">>, <<"z", "s", "h">>, <<"p", "y", "t", "h", "o", "n">>, <<"n", "o", "d", "e">>, <<"j", "a", "v", "a", "s", "c", "r", "i", "p", "t">>}

\* No runner and no rotate_audit call is under way.
NoneActive ==
    /\ \A j \in Invs : run[j].pc = "idle"
    /\ rot.pc = "idle"

\* Command::spawn succeeded: the child runs and the polling loop starts.
\* run_code has written its temporary file before.
Child(r, kind, timeout) ==
    [r EXCEPT !.kind = kind, !.pc = "poll", !.timeout = timeout,
              !.child = "running", !.tmpCreated = (kind = "app"),
              !.aliveAtDeadline = IF timeout = 0 THEN "alive" ELSE "n/a"]

\* A runner is called and its spawn succeeds.
\* (Invocations are numbered in the order they start.)
Spawn(i, kind, timeout) ==
    /\ run[i].pc = "idle" /\ run[i].kind = "none"
    /\ \A j \in Invs : j < i => run[j].kind # "none"
    /\ run' = [run EXCEPT ![i] = Child(@, kind, timeout)]
    /\ UNCHANGED <<logIno, bakIno, inodes, fs0, rot>>
    /\ UNCHANGED <<ipcVars, cliVars>>

\* A runner returns Err before any process exists.
Refuse(r, kind, arg, error) ==
    [r EXCEPT !.kind = kind, !.pc = "done", !.arg = Some(arg), !.result = "Err",
              !.error = error]

\* execute_command(command, working_dir, timeout_secs) up to the polling
\* loop: the command is split at whitespace, "Empty command" when nothing is
\* left; Command::spawn, "Failed to spawn command" when it fails.
ExecuteCommand(i, command, timeout, fault) ==
    /\ run[i].pc = "idle" /\ run[i].kind = "none"
    /\ \A j \in Invs : j < i => run[j].kind # "none"
    /\ run' = [run EXCEPT ![i] =
           IF SplitWhitespace(command) = <<>>
           THEN Refuse(@, "cli", command, <<"Empty command">>)
           ELSE IF fault = "spawn"
           THEN Refuse(@, "cli", command, <<"Failed to spawn command", ": ", "os error">>)
           ELSE [Child(@, "cli", timeout) EXCEPT !.arg = Some(command)]]
    /\ UNCHANGED <<logIno, bakIno, inodes, fs0, rot>>
    /\ UNCHANGED <<ipcVars, cliVars>>

\* run_code(language, code, timeout_ms, cwd) up to the polling loop: the
\* whitelist, the temporary file (created, then written), Command::spawn.
\* The temporary file is removed when run_code returns.
RunCode(i, language, timeout, fault) ==
    /\ run[i].pc = "idle" /\ run[i].kind = "none"
    /\ \A j \in Invs : j < i => run[j].kind # "none"
    /\ run' = [run EXCEPT ![i] =
           IF ToLower(language) \notin SupportedLanguages
           THEN Refuse(@, "app", language, <<"Unsupported language", ": ">> \o language)
           ELSE IF fault = "tempfile"
           THEN Refuse(@, "app", language, <<"failed to create temp file", ": ", "os error">>)
           ELSE IF fault = "write"
           THEN [Refuse(@, "app", language, <<"failed to write temp file", ": ", "os error">>)
                     EXCEPT !.tmpCreated = TRUE]
           ELSE IF fault = "spawn"
           THEN [Refuse(@, "app", language, <<"failed to spawn", ": ", "os error">>)
                     EXCEPT !.tmpCreated = TRUE]
           ELSE [Child(@, "app", timeout) EXCEPT !.arg = Some(language)]]
    /\ UNCHANGED <<logIno, bakIno, inodes, fs0, rot>>
    /\ UNCHANGED <<ipcVars, cliVars>>

\* Time passes for an invocation in its polling loop. When the timeout
\* elapses, aliveAtDeadline notes whether the child is still running.
Tick(i) ==
    /\ run[i].pc \in {"poll", "sleep"}
    /\ run[i].elapsed < MaxElapsed
    /\ run' = [run EXCEPT ![i].elapsed = @ + 1,
                          ![i].aliveAtDeadline =
                              IF run[i].elapsed + 1 = run[i].timeout
                              THEN (IF run[i].child = "running" THEN "alive" ELSE "exited")
                              ELSE @]
    /\ UNCHANGED <<logIno, bakIno, inodes, fs0, rot>>
    /\ UNCHANGED <<ipcVars, cliVars>>

\* Mutant of DrainsWhilePolling: the loop reads the pipes at every turn.
DrainsAtEveryPoll == TRUE

\* The polling loops of execute_command and run_code: try_wait, the test of
\* the elapsed time, kill, sleep; no read of child.stdout or child.stderr.
DrainsWhilePolling == FALSE

\* The child ends on its own: it exits with a code, or a signal sent by
\* someone else ends it. A child blocked in a write on a full pipe that
\* nobody reads cannot exit; only a signal ends it.
ChildExit(i, status) ==
    /\ run[i].child = "running"
    /\ run[i].pc \in {"poll", "sleep"}
    /\ (run[i].pipeFull /\ ~DrainsWhilePolling) => status = "signal"
    /\ run' = [run EXCEPT ![i].child = "zombie", ![i].status = status]
    /\ UNCHANGED <<logIno, bakIno, inodes, fs0, rot>>
    /\ UNCHANGED <<ipcVars, cliVars>>

\* Mutant of Poll: the elapsed time is tested before the exit status.
PollTimeFirst(i) ==
    /\ run[i].pc = "poll"
    /\ LET r == run[i]
           seen == [r EXCEPT !.lastPollAlive = (r.child = "running"),
                             !.lastPollAtDeadline = (r.elapsed >= r.timeout),
                             !.lastPollPastDeadline = (r.elapsed > r.timeout)]
           \* the loop is left: its clock no longer matters
           left == [seen EXCEPT !.elapsed = 0, !.wake = 0, !.timeout = 0, !.arg = None]
       IN  run' = [run EXCEPT ![i] =
              IF TimeoutReached(r.kind, r.elapsed, r.timeout)
              THEN IF r.kind = "cli"
                   THEN [left EXCEPT !.child = "reaped", !.status = "signal",
                                     !.killed = TRUE, !.timed_out = TimedOutFlag,
                                     !.pc = "collect"]
                   ELSE [left EXCEPT !.child = "zombie", !.status = "signal",
                                     !.killed = TRUE, !.timed_out = TimedOutFlag,
                                     !.pc = IF r.pipeHeld THEN "read" ELSE "audit_meta",
                                     !.auditCalls = IF r.pipeHeld THEN @ ELSE @ + 1]
              ELSE IF r.child = "zombie"
              THEN [left EXCEPT !.child = "reaped",
                                !.exit_code = StatusCode(r.status),
                                !.pc = IF r.kind = "cli" THEN "collect"
                                       ELSE IF r.pipeHeld THEN "read" ELSE "audit_meta",
                                !.auditCalls = IF r.kind = "cli" \/ r.pipeHeld
                                               THEN @ ELSE @ + 1]
              ELSE [seen EXCEPT !.pc = "sleep", !.wake = r.elapsed + PollInterval]]
    /\ UNCHANGED <<logIno, bakIno, inodes, fs0, rot>>
    /\ UNCHANGED <<ipcVars, cliVars>>

\* One turn of the polling loop with try_wait returning Ok.
\*   Ok(Some(status)): try_wait has reaped the child. execute_command sets
\*     exit_code and breaks; run_code reads the pipes and calls append_audit.
\*   Ok(None), timeout reached: execute_command kills, waits and sets
\*     timed_out; run_code kills and breaks, then reads the pipes and calls
\*     append_audit.
\*   Ok(None) otherwise: sleep 50 ms.
\* run_code's read_to_string of the two pipes returns at once when the child
\* was the only writer; while a descendant holds them it stays in "read".
Poll(i) ==
    /\ run[i].pc = "poll"
    /\ LET r == run[i]
           seen == [r EXCEPT !.lastPollAlive = (r.child = "running"),
                             !.lastPollAtDeadline = (r.elapsed >= r.timeout),
                             !.lastPollPastDeadline = (r.elapsed > r.timeout)]
           \* the loop is left: its clock no longer matters
           left == [seen EXCEPT !.elapsed = 0, !.wake = 0, !.timeout = 0, !.arg = None]
       IN  run' = [run EXCEPT ![i] =
              IF r.child = "zombie"
              THEN [left EXCEPT !.child = "reaped",
                                !.exit_code = StatusCode(r.status),
                                !.pc = IF r.kind = "cli" THEN "collect"
                                       ELSE IF r.pipeHeld THEN "read" ELSE "audit_meta",
                                !.auditCalls = IF r.kind = "cli" \/ r.pipeHeld
                                               THEN @ ELSE @ + 1]
              ELSE IF TimeoutReached(r.kind, r.elapsed, r.timeout)
              THEN IF r.kind = "cli"
                   THEN [left EXCEPT !.child = "reaped", !.status = "signal",
                                     !.killed = TRUE, !.timed_out = TimedOutFlag,
                                     !.pc = "collect"]
                   ELSE [left EXCEPT !.child = "zombie", !.status = "signal",
                                     !.killed = TRUE, !.timed_out = TimedOutFlag,
                                     !.pc = IF r.pipeHeld THEN "read" ELSE "audit_meta",
                                     !.auditCalls = IF r.pipeHeld THEN @ ELSE @ + 1]
              ELSE [seen EXCEPT !.pc = "sleep", !.wake = r.elapsed + PollInterval]]
    /\ UNCHANGED <<logIno, bakIno, inodes, fs0, rot>>
    /\ UNCHANGED <<ipcVars, cliVars>>

\* try_wait returns Err: both runners return Err at once.
PollError(i) ==
    /\ run[i].pc = "poll"
    /\ run' = [run EXCEPT ![i].pc = "done", ![i].result = "Err",
                          ![i].error = <<IF run[i].kind = "cli"
                                         THEN "Error waiting for process"
                                         ELSE "failed to poll child", ": ", "os error">>,
                          ![i].waitFailed = TRUE, ![i].arg = None,
                          ![i].elapsed = 0, ![i].wake = 0, ![i].timeout = 0]
    /\ UNCHANGED <<logIno, bakIno, inodes, fs0, rot>>
    /\ UNCHANGED <<ipcVars, cliVars>>

\* The 50 ms sleep is over (a sleep can last longer than asked).
Wake(i) ==
    /\ run[i].pc = "sleep"
    /\ run[i].elapsed >= run[i].wake
    /\ run' = [run EXCEPT ![i].pc = "poll"]
    /\ UNCHANGED <<logIno, bakIno, inodes, fs0, rot>>
    /\ UNCHANGED <<ipcVars, cliVars>>

\* execute_command: wait_with_output, which reads what the child wrote on its
\* standard error, then the error summary and Ok(CaptureResult); Err when the
\* output cannot be read.
Collect(i, fail, stderr) ==
    /\ run[i].pc = "collect"
    \* the pipes are read to their end, which comes when no process holds
    \* their writing side
    /\ ~run[i].pipeHeld
    /\ run' = [run EXCEPT ![i] =
           IF fail
           THEN [@ EXCEPT !.pc = "done", !.result = CollectResult(fail, run[i].exit_code),
                          !.waitFailed = TRUE,
                          !.error = <<"Failed to read output", ": ", "os error">>]
           ELSE [@ EXCEPT !.pc = "done", !.result = CollectResult(fail, run[i].exit_code),
                          !.stderr = stderr,
                          !.error_summary =
                              IF SummaryNeeded(run[i].exit_code, stderr)
                              THEN Some(AnalyzeErrorOutput(stderr, run[i].exit_code))
                              ELSE None]]
    /\ UNCHANGED <<logIno, bakIno, inodes, fs0, rot>>
    /\ UNCHANGED <<ipcVars, cliVars>>

\* The child starts a process of its own, which inherits the writing side
\* of the two output pipes (holds = TRUE), or that descendant ends (holds =
\* FALSE). Child::kill reaches the child only.
Descendant(i, holds) ==
    /\ run[i].pipeHeld # holds
    /\ holds => (run[i].child = "running" /\ run[i].pc \in {"poll", "sleep"})
    /\ run' = [run EXCEPT ![i].pipeHeld = holds]
    /\ UNCHANGED <<logIno, bakIno, inodes, fs0, rot>>
    /\ UNCHANGED <<ipcVars, cliVars>>

\* The child writes more than an output pipe can hold: the write blocks
\* until somebody reads the pipe.
ChildFills(i) ==
    /\ run[i].child = "running"
    /\ run[i].pc \in {"poll", "sleep"}
    /\ ~run[i].pipeFull
    /\ run' = [run EXCEPT ![i].pipeFull = TRUE]
    /\ UNCHANGED <<logIno, bakIno, inodes, fs0, rot>>
    /\ UNCHANGED <<ipcVars, cliVars>>

\* run_code: out.read_to_string and err.read_to_string reach the end of the
\* pipes once no process holds their writing side; append_audit follows.
ReadPipes(i) ==
    /\ run[i].pc = "read"
    /\ ~run[i].pipeHeld
    /\ run' = [run EXCEPT ![i].pc = "audit_meta", ![i].auditCalls = @ + 1]
    /\ UNCHANGED <<logIno, bakIno, inodes, fs0, rot>>
    /\ UNCHANGED <<ipcVars, cliVars>>

\* ------------------------------------------------------------ the audit log
\* Mutant of RemoveBackup: the backup is left for the rename to replace.
RemoveBackupSkipped(fail) == bakIno' = bakIno

\* fs::remove_file(&rot): the name of the backup is removed when it is there.
RemoveBackup(fail) ==
    bakIno' = IF ~fail /\ bakIno # 0 THEN 0 ELSE bakIno

\* fs::rename(&log_path, &rot) succeeds: the log is there and the step works.
RenameSucceeds(fail) == ~fail /\ logIno # 0

\* Mutant of RenameLog: the log keeps its name (a hard link, not a rename).
RenameLogKeepsName(fail) ==
    IF RenameSucceeds(fail)
    THEN bakIno' = logIno /\ logIno' = logIno
    ELSE UNCHANGED <<logIno, bakIno>>

\* fs::rename(&log_path, &rot): the backup name now names the log's inode and
\* the log name is gone; nothing changes when the rename fails.
RenameLog(fail) ==
    IF RenameSucceeds(fail)
    THEN bakIno' = logIno /\ logIno' = 0
    ELSE UNCHANGED <<logIno, bakIno>>

\* Mutant of RotationDue: the comparison is the wrong way round.
RotationDueInverted(fail) ==
    ~fail /\ logIno # 0 /\ FileSize(inodes[logIno]) < MAX_LOG_BYTES

\* append_audit: `if let Ok(meta) = fs::metadata(&log_path)` and
\* `meta.len() > MAX_LOG_BYTES`.
RotationDue(fail) ==
    ~fail /\ logIno # 0 /\ FileSize(inodes[logIno]) > MAX_LOG_BYTES

\* append_audit is entered: the entry is formatted and fs::metadata read.
\* preLog and preBak note what the two files hold at this moment.
AuditMeta(i, fail) ==
    /\ run[i].pc = "audit_meta"
    /\ run' = [run EXCEPT ![i].pc = IF RotationDue(fail) THEN "audit_remove" ELSE "audit_open",
                          ![i].rotating = RotationDue(fail),
                          ![i].ioFailed = fail,
                          ![i].preLog = FileContent(logIno),
                          ![i].preBak = FileContent(bakIno)]
    /\ UNCHANGED <<logIno, bakIno, inodes, fs0, rot>>
    /\ UNCHANGED <<ipcVars, cliVars>>

\* append_audit: let _ = fs::remove_file(&rot)
AuditRemove(i, fail) ==
    /\ run[i].pc = "audit_remove"
    /\ RemoveBackup(fail)
    /\ run' = [run EXCEPT ![i].pc = "audit_rename", ![i].ioFailed = @ \/ fail]
    /\ UNCHANGED <<logIno, inodes, fs0, rot>>
    /\ UNCHANGED <<ipcVars, cliVars>>

\* append_audit: fs::rename(&log_path, &rot); an error is printed.
AuditRename(i, fail) ==
    /\ run[i].pc = "audit_rename"
    /\ RenameLog(fail)
    /\ run' = [run EXCEPT ![i].pc = "audit_open",
                          ![i].ioFailed = @ \/ ~RenameSucceeds(fail)]
    /\ UNCHANGED <<inodes, fs0, rot>>
    /\ UNCHANGED <<ipcVars, cliVars>>

\* append_audit: OpenOptions::new().create(true).append(true).open(&log_path):
\* the file is created when the name is free; an error is printed and
\* nothing is written.
AuditOpen(i, fail) ==
    /\ run[i].pc = "audit_open"
    /\ IF fail
       THEN /\ run' = [run EXCEPT ![i].pc = "audit_ret", ![i].ioFailed = TRUE]
            /\ UNCHANGED <<logIno, inodes>>
       ELSE IF logIno = 0
       THEN /\ inodes' = Append(inodes, <<>>)
            /\ logIno' = Len(inodes) + 1
            /\ run' = [run EXCEPT ![i].pc = "audit_write", ![i].handle = Len(inodes) + 1]
       ELSE /\ run' = [run EXCEPT ![i].pc = "audit_write", ![i].handle = logIno]
            /\ UNCHANGED <<logIno, inodes>>
    /\ UNCHANGED <<bakIno, fs0, rot>>
    /\ UNCHANGED <<ipcVars, cliVars>>

\* Mutant of WriteAll: nothing reaches the file.
WriteAllNothing(content, entry) == content

\* f.write_all(entry.as_bytes()) on a file opened with append(true): the
\* entry goes to the end of the file.
WriteAll(content, entry) == Append(content, entry)

\* append_audit: f.write_all(entry.as_bytes()) on the file that was opened;
\* an error is printed.
AuditWrite(i, fail) ==
    /\ run[i].pc = "audit_write"
    /\ IF fail
       THEN /\ run' = [run EXCEPT ![i].pc = "audit_ret", ![i].handle = 0,
                                  ![i].ioFailed = TRUE]
            /\ UNCHANGED inodes
       ELSE /\ inodes' = [inodes EXCEPT ![run[i].handle] = WriteAll(@, Entry(i))]
            /\ run' = [run EXCEPT ![i].pc = "audit_ret", ![i].handle = 0,
                                  ![i].written = @ + 1]
    /\ UNCHANGED <<logIno, bakIno, fs0, rot>>
    /\ UNCHANGED <<ipcVars, cliVars>>

\* Mutant of AppendAuditResult: a failed step is reported to the caller.
AppendAuditResultPropagates(failed) == IF failed THEN "Err" ELSE "Ok"

\* append_audit ends with Ok(()) whatever happened before.
AppendAuditResult(failed) == "Ok"

\* run_code: `let _ = append_audit(...)`, then Ok(RunResult {..}).
RunCodeResult(auditResult) == "Ok"

\* append_audit returns and run_code returns its RunResult.
Return(i) ==
    /\ run[i].pc = "audit_ret"
    /\ run' = [run EXCEPT ![i].pc = "done",
                          ![i].auditRet = AppendAuditResult(run[i].ioFailed),
                          ![i].result = RunCodeResult(AppendAuditResult(run[i].ioFailed)),
                          ![i].preLog = None, ![i].preBak = None]
    /\ UNCHANGED <<logIno, bakIno, inodes, fs0, rot>>
    /\ UNCHANGED <<ipcVars, cliVars>>

\* The caller has taken the result: the invocation is over. What it did to
\* the audit log stays on record.
Forget(i) ==
    /\ run[i].pc = "done"
    /\ run' = [run EXCEPT ![i] = [NoRun EXCEPT !.kind = "gone",
                                               !.auditCalls = run[i].auditCalls,
                                               !.written = run[i].written]]
    /\ UNCHANGED <<logIno, bakIno, inodes, fs0, rot>>
    /\ UNCHANGED <<ipcVars, cliVars>>

\* rotate_audit is called (a command of the application).
RotateCall ==
    /\ rot.pc = "idle"
    /\ rot.calls < MaxRotates
    /\ rot' = [rot EXCEPT !.pc = "remove", !.calls = @ + 1, !.result = "none",
                          !.removeFailed = FALSE, !.renamed = FALSE,
                          !.prev = rot.result]
    /\ UNCHANGED <<run, logIno, bakIno, inodes, fs0>>
    /\ UNCHANGED <<ipcVars, cliVars>>

\* rotate_audit: let _ = std::fs::remove_file(&rot)
RotateRemove(fail) ==
    /\ rot.pc = "remove"
    /\ RemoveBackup(fail)
    /\ rot' = [rot EXCEPT !.pc = "rename", !.removeFailed = fail]
    /\ UNCHANGED <<run, logIno, inodes, fs0>>
    /\ UNCHANGED <<ipcVars, cliVars>>

\* rotate_audit: fs::rename(&log_path, &rot).map_err(..)?; Ok(())
RotateRename(fail) ==
    /\ rot.pc = "rename"
    /\ RenameLog(fail)
    /\ rot' = [rot EXCEPT !.pc = "idle",
                          !.renamed = (logIno' = 0 /\ bakIno' = logIno /\ logIno # 0),
                          !.result = IF RenameSucceeds(fail) THEN "Ok" ELSE "Err"]
    /\ UNCHANGED <<run, inodes, fs0>>
    /\ UNCHANGED <<ipcVars, cliVars>>

\* The application soft-deletes conversation number i (Conversation::delete:
\* UPDATE conversations SET deleted = 1).
DeleteConversation(i) ==
    /\ i \in 1..Len(convs)
    /\ ~convs[i].deleted
    /\ convs' = [convs EXCEPT ![i].deleted = TRUE]
    /\ UNCHANGED <<envDevMode, server, dev_mode_enabled, connPc, inbox, peerClosed, reqs,
                   cur, convId, resp, out, processed, msgs, events, now, sent>>
    /\ UNCHANGED <<held, runVars, cliVars>>

\* ================================================ the command-line client
\* cli/src/main.rs main. What comes back for a request: "transport" (connect,
\* write or read failed), "unparsable" (the reply line is no Response),
\* "eof" (read_line returns Ok(0): the server closed the connection without
\* answering), "error" (a Response with status error), "ok" (status ok, no
\* data), "ok_data" (status ok and a Message as data), "ok_other" (status ok
\* and data that is no Message).
Outcomes == {"transport", "unparsable", "eof", "error", "ok", "ok_data", "ok_other"}

CliCommands == {"notify", "last", "create", "ask", "ask_gui", "capture", "capture_ai"}

NoCli ==
    [cmd |-> "none", env |-> None, pc |-> "idle", sentReqs |-> <<>>, errDiag |-> FALSE,
     outDiag |-> FALSE, printed |-> FALSE, exit |-> 0]

\* Mutant of SendIpc: the reply is read, and only status ok is a success.
SendIpcChecksStatus(o) ==
    IF o \in {"transport", "unparsable", "eof", "error"} THEN "Err" ELSE "Ok"

\* send_ipc: Err only for a transport failure; the reply line is read and
\* dropped, whatever its status.
SendIpc(o) == IF o = "transport" THEN "Err" ELSE "Ok"

\* send_ipc_with_response: Err for a transport failure and for a reply that
\* serde_json cannot read as an IpcResponse, the empty line of a closed
\* connection included.
SendIpcWithResponse(o) ==
    IF o \in {"transport", "unparsable", "eof"} THEN "Err" ELSE "Ok"

\* eprintln!(..) followed by std::process::exit(1)
ExitWithDiagnostic(st) == [st EXCEPT !.pc = "exited", !.errDiag = TRUE, !.exit = 1]

\* main returns: the process ends with status 0.
ReturnFromMain(st) == [st EXCEPT !.pc = "exited", !.exit = 0]

\* The reading of a reply to `last` in Commands::Last and in handle_ask:
\* the content is printed for status ok with a Message; everything else is
\* a diagnostic and exit(1).
PrintLastOrExit(st, o) ==
    IF o = "ok_data"
    THEN ReturnFromMain([st EXCEPT !.printed = TRUE])
    ELSE ExitWithDiagnostic(st)

\* The shell starts `lai <command>` with DEV_MODE unset or set in the
\* environment of the client; capture runs execute_command first. Every
\* subcommand is parsed in every build and environment: Create is only left
\* out of the help text of a release build (hide = !cfg!(debug_assertions)),
\* and main never reads DEV_MODE.
CliStart(cmd) ==
    /\ cli.pc = "idle"
    /\ \E v \in EnvValues :
          cli' = [cli EXCEPT !.cmd = cmd, !.env = v,
                             !.pc = IF cmd \in {"capture", "capture_ai"}
                                    THEN "exec" ELSE "first"]
    /\ UNCHANGED <<ipcVars, runVars, call>>

\* Commands::Capture: execute_command returns Err (exit 1 with a diagnostic)
\* or Ok; the result is displayed, and with --ai-analyze the requests follow.
CaptureRun(ok) ==
    /\ cli.pc = "exec"
    /\ cli' = IF ~ok THEN ExitWithDiagnostic(cli)
              ELSE IF cli.cmd = "capture_ai"
              THEN [cli EXCEPT !.pc = "first", !.printed = TRUE]
              ELSE ReturnFromMain([cli EXCEPT !.printed = TRUE])
    /\ UNCHANGED <<ipcVars, runVars, call>>

\* The first request of the command and what main does with its outcome.
\*   notify:  send_ipc("notify")
\*   last:    send_ipc_with_response("last")
\*   create:  send_ipc("create"), then `last` is asked
\*   ask:     handle_ask: send_ipc("ask"), then with --gui a message and
\*            return, without it `last` is asked
\*   capture --ai-analyze: send_ipc_with_response("ask"); failures are
\*            printed with println! and main returns
CliFirst(o) ==
    /\ cli.pc = "first"
    /\ LET kind == CASE cli.cmd = "notify" -> "notify"
                     [] cli.cmd = "last" -> "last"
                     [] cli.cmd = "create" -> "create"
                     [] OTHER -> "ask"
           st == [cli EXCEPT !.sentReqs = Append(@, [kind |-> kind, outcome |-> o])]
       IN  cli' =
             CASE cli.cmd = "notify" ->
                    IF SendIpc(o) = "Err" THEN ExitWithDiagnostic(st) ELSE ReturnFromMain(st)
               [] cli.cmd = "last" -> PrintLastOrExit(st, o)
               [] cli.cmd = "create" ->
                    IF SendIpc(o) = "Err" THEN ExitWithDiagnostic(st)
                    ELSE [st EXCEPT !.pc = "second"]
               [] cli.cmd = "ask" ->
                    IF SendIpc(o) = "Err" THEN ExitWithDiagnostic(st)
                    ELSE [st EXCEPT !.pc = "second"]
               [] cli.cmd = "ask_gui" ->
                    IF SendIpc(o) = "Err" THEN ExitWithDiagnostic(st)
                    ELSE ReturnFromMain([st EXCEPT !.printed = TRUE])
               [] OTHER ->
                    IF SendIpcWithResponse(o) = "Ok" /\ o # "error"
                    THEN [st EXCEPT !.pc = "second"]
                    ELSE ReturnFromMain([st EXCEPT !.outDiag = TRUE])
    /\ UNCHANGED <<ipcVars, runVars, call>>

\* The `last` request that follows create, ask and the ask of capture
\* --ai-analyze.
\*   create:  failures are printed with eprintln! and main returns
\*   ask:     as Commands::Last
\*   capture --ai-analyze: a transport failure is printed with println!, a
\*            reply without a Message prints nothing or "Failed to parse AI
\*            response"; main returns
CliSecond(o) ==
    /\ cli.pc = "second"
    /\ LET st == [cli EXCEPT !.sentReqs = Append(@, [kind |-> "last", outcome |-> o])]
       IN  cli' =
             CASE cli.cmd = "create" ->
                    IF o = "ok_data" THEN ReturnFromMain([st EXCEPT !.printed = TRUE])
                    ELSE ReturnFromMain([st EXCEPT !.errDiag = TRUE])
               [] cli.cmd = "ask" -> PrintLastOrExit(st, o)
               [] OTHER ->
                    IF o = "ok_data" THEN ReturnFromMain([st EXCEPT !.printed = TRUE])
                    ELSE IF SendIpcWithResponse(o) = "Err"
                    THEN ReturnFromMain([st EXCEPT !.outDiag = TRUE])
                    ELSE IF o \in {"error", "ok_other"}
                    THEN ReturnFromMain([st EXCEPT !.outDiag = TRUE])
                    ELSE ReturnFromMain(st)
    /\ UNCHANGED <<ipcVars, runVars, call>>

\* ------------------------------------------------------------- read_audit
\* str::lines: the pieces between line feeds; a last piece that is empty is
\* no line. A text is a sequence of characters. (The text is cut at the line
\* feed nearest to its middle, which keeps the recursion shallow.)
RECURSIVE Lines(_)
Lines(text) ==
    LET inner == {k \in 1..(Len(text) - 1) : text[k] = "\n"}
        away(k) == IF 2 * k >= Len(text) THEN 2 * k - Len(text) ELSE Len(text) - 2 * k
    IN  IF text = <<>> THEN <<>>
        ELSE IF inner = {}
        THEN IF text[Len(text)] = "\n"
             THEN <<SubSeq(text, 1, Len(text) - 1)>> ELSE <<text>>
        ELSE LET p == CHOOSE k \in inner : \A q \in inner : away(k) <= away(q)
             IN  Lines(SubSeq(text, 1, p)) \o Lines(SubSeq(text, p + 1, Len(text)))

\* read_audit: lines.unwrap_or(200)
DefaultLines == 200

\* Mutant of ReadAudit: the first l lines are returned, not the last.
ReadAuditFromStart(files, lines) ==
    IF ~IsSome(files.log)
    THEN [tag |-> "Err", text |-> <<"failed to read audit log", ": ", "os error">>]
    ELSE LET l == IF IsSome(lines) THEN Unwrap(lines) ELSE DefaultLines
             v == Lines(Unwrap(files.log))
             slice == SubSeq(v, 1, IF Len(v) > l THEN l ELSE Len(v))
             RECURSIVE join(_, _)
             join(lo, hi) ==
                 IF lo > hi THEN <<>>
                 ELSE IF lo = hi THEN slice[lo]
                 ELSE join(lo, (lo + hi) \div 2) \o <<"\n">>
                          \o join((lo + hi) \div 2 + 1, hi)
         IN  [tag |-> "Ok", text |-> join(1, Len(slice))]

\* read_audit(lines): the file at get_audit_log_path() is read whole, Err when
\* it cannot be read; the last l lines are joined with line feeds. `files`
\* holds the text of the log and of the backup, None for a missing file.
ReadAudit(files, lines) ==
    IF ~IsSome(files.log)
    THEN [tag |-> "Err", text |-> <<"failed to read audit log", ": ", "os error">>]
    ELSE LET l == IF IsSome(lines) THEN Unwrap(lines) ELSE DefaultLines
             v == Lines(Unwrap(files.log))
             start == IF Len(v) > l THEN Len(v) - l ELSE 0
             slice == SubSeq(v, start + 1, Len(v))
             RECURSIVE join(_, _)
             join(lo, hi) ==
                 IF lo > hi THEN <<>>
                 ELSE IF lo = hi THEN slice[lo]
                 ELSE join(lo, (lo + hi) \div 2) \o <<"\n">>
                          \o join((lo + hi) \div 2 + 1, hi)
         IN  [tag |-> "Ok", text |-> join(1, Len(slice))]

\* --------------------------------------------- functions taken on their own
NoCall == [fn |-> "none", args |-> <<>>, ret |-> <<>>]

\* A function is called with these arguments and returns this value.
Call(fn, args, ret) ==
    /\ call' = [fn |-> fn, args |-> args, ret |-> ret]
    /\ UNCHANGED <<ipcVars, runVars, cli>>

\* ---------------------------------------------------------- specifications
vars == <<ipcVars, runVars, cliVars>>

\* The runners at rest, for the specification of the IPC server.
RunAtRest ==
    /\ cli = NoCli
    /\ call = NoCall
    /\ run = [i \in Invs |-> NoRun]
    /\ rot = [pc |-> "idle", calls |-> 0, result |-> "none", removeFailed |-> FALSE,
              renamed |-> FALSE, prev |-> "none"]
    /\ fs0 = [log |-> None, bak |-> None]
    /\ inodes = <<>>
    /\ logIno = 0
    /\ bakIno = 0

\* The IPC server not started, for the specifications of the runners.
IpcAtRest ==
    /\ InitIpc
    /\ envDevMode = None
    /\ convs = <<>>

Init == InitIpc /\ RunAtRest

Next == NextIpc

Spec == Init /\ [][Next]_vars

\* The IPC server with clients that are calls of send_ipc and of
\* send_ipc_with_response; the INSERT of a message may fail.
NextCall ==
    \/ StartIpcServer
    \/ \E c \in Conns : Accept(c)
    \/ \E c \in Conns, line \in LineValues : ClientCall(c, line)
    \/ \E c \in Conns : ClientClose(c)
    \/ \E c \in Conns : ReadLine(c)
    \/ \E c \in Conns : ReadEof(c)
    \/ \E c \in Conns : ReadError(c)
    \/ \E c \in Conns : HandleMessage(c)
    \/ \E c \in Conns, fail \in BOOLEAN : CreateMessage(c, fail)
    \/ \E c \in Conns : SendResponse(c)

SpecCall == Init /\ [][NextCall]_vars

\* The stores `last` is asked about: a conversation with an assistant message,
\* then a second conversation updated at the same time or later, deleted or
\* not, with or without an assistant message of its own; the first
\* conversation has a later message that is from the user or the assistant,
\* deleted or not.
LastStores ==
    { [convs |-> <<>>, msgs |-> <<>>] } \cup
    { [convs |->
          <<[id |-> 1, updated_at |-> 1, deleted |-> FALSE, by |-> NoBy],
            [id |-> 2, updated_at |-> u2, deleted |-> d2, by |-> NoBy]>>,
       msgs |->
          <<[id |-> 1, conversation_id |-> 1, role |-> "assistant", content |-> "a1",
             timestamp |-> 1, deleted |-> FALSE, by |-> NoBy],
            [id |-> 2, conversation_id |-> 1, role |-> r, content |-> "m2",
             timestamp |-> 2, deleted |-> dm, by |-> NoBy]>>
          \o (IF m3 THEN <<[id |-> 3, conversation_id |-> 2, role |-> "assistant",
                            content |-> "a3", timestamp |-> 3, deleted |-> FALSE,
                            by |-> NoBy]>>
                    ELSE <<>>)]
      : u2 \in {1, 2}, d2 \in BOOLEAN, r \in {"user", "assistant"},
        dm \in BOOLEAN, m3 \in BOOLEAN }

\* The line the CLI writes for `lai last`.
LastLine == EnvelopeLine(64, "last", None, NoPayload)

\* The IPC server asked for the last assistant message while the application
\* deletes conversations.
InitLast ==
    /\ InitServer
    /\ envDevMode = None
    /\ \E st \in LastStores : convs = st.convs /\ msgs = st.msgs
    /\ RunAtRest

NextLast ==
    \/ StartIpcServer
    \/ \E c \in Conns : Accept(c)
    \/ \E c \in Conns : ClientSend(c, LastLine)
    \/ \E c \in Conns : ClientClose(c)
    \/ \E c \in Conns : ReadLine(c)
    \/ \E c \in Conns : ReadEof(c)
    \/ \E c \in Conns : ReadError(c)
    \/ \E c \in Conns : HandleMessage(c)
    \/ \E c \in Conns : SendResponse(c)
    \/ \E i \in 1..2 : DeleteConversation(i)

SpecLast == InitLast /\ [][NextLast]_vars

\* One run of the command-line client, with every outcome of its requests.
InitCli == IpcAtRest /\ RunAtRest

NextCli ==
    \/ \E cmd \in CliCommands : CliStart(cmd)
    \/ \E ok \in BOOLEAN : CaptureRun(ok)
    \/ \E o \in Outcomes : CliFirst(o)
    \/ \E o \in Outcomes : CliSecond(o)

SpecCli == InitCli /\ [][NextCli]_vars

\* The steps of the polling loop, and the caller taking the result.
PollSteps ==
    \/ \E i \in Invs : Tick(i)
    \/ \E i \in Invs, st \in {"exit0", "exit1", "signal"} : ChildExit(i, st)
    \/ \E i \in Invs : Poll(i)
    \/ \E i \in Invs : Wake(i)
    \/ \E i \in Invs : Forget(i)

\* The steps of append_audit and of rotate_audit; `fail` makes the system
\* call of the step fail.
AuditSteps(fail) ==
    \/ \E i \in Invs : AuditMeta(i, fail)
    \/ \E i \in Invs : AuditRemove(i, fail)
    \/ \E i \in Invs : AuditRename(i, fail)
    \/ \E i \in Invs : AuditOpen(i, fail)
    \/ \E i \in Invs : AuditWrite(i, fail)
    \/ \E i \in Invs : Return(i)
    \/ RotateRemove(fail)
    \/ RotateRename(fail)

\* One caller at a time, no failing step: a runner or rotate_audit starts
\* only when nothing else is under way.
NextSeq ==
    \/ \E i \in Invs, k \in {"cli", "app"}, t \in Timeouts : NoneActive /\ Spawn(i, k, t)
    \/ NoneActive /\ RotateCall
    \/ PollSteps
    \/ \E i \in Invs : Collect(i, FALSE, <<>>)
    \/ AuditSteps(FALSE)

InitRunners == IpcAtRest /\ InitRun /\ cli = NoCli /\ call = NoCall

SpecSeq == InitRunners /\ [][NextSeq]_vars

\* Concurrent calls of run_code (with timeout_ms = 0) and of rotate_audit, no
\* failing step.
NextConc ==
    \/ \E i \in Invs : Spawn(i, "app", 0)
    \/ RotateCall
    \/ PollSteps
    \/ AuditSteps(FALSE)

SpecConc == InitRunners /\ [][NextConc]_vars

\* One caller at a time, and any system call of the runners or of the audit
\* log may fail.
NextRun ==
    \/ \E i \in Invs, k \in {"cli", "app"}, t \in Timeouts : NoneActive /\ Spawn(i, k, t)
    \/ NoneActive /\ RotateCall
    \/ PollSteps
    \/ \E i \in Invs : PollError(i)
    \/ \E i \in Invs, fail \in BOOLEAN : Collect(i, fail, <<>>)
    \/ \E fail \in BOOLEAN : AuditSteps(fail)

SpecRun == InitRunners /\ [][NextRun]_vars

\* What a child of execute_command leaves on its standard error.
StderrValues ==
    { <<>>,
      <<"s", "h", ":", " ", "l", "s", ":", " ", "C", "o", "m", "m", "a", "n", "d", " ", "N", "o", "t", " ", "F", "o", "u", "n", "d">>,
      <<"c", "a", "t", ":", " ", "x", ":", " ", "N", "O", " ", "S", "U", "C", "H", " ", "F", "I", "L", "E">>,
      <<"P", "e", "r", "m", "i", "s", "s", "i", "o", "n", " ", "d", "e", "n", "i", "e", "d">>,
      <<"C", "o", "n", "n", "e", "c", "t", "i", "o", "n", " ", "r", "e", "f", "u", "s", "e", "d">>,
      <<"c", "o", "n", "n", "e", "c", "t", "i", "o", "n", " ", "r", "e", "s", "e", "t">>,
      <<"O", "O", "M">>,
      <<"w", "a", "r", "n", "i", "n", "g">>,
      <<"O", "u", "t", " ", "o", "f", " ", "m", "e", "m", "o", "r", "y", ":", " ", "c", "o", "n", "n", "e", "c", "t", "i", "o", "n", " ", "r", "e", "f", "u", "s", "e", "d">> }

\* The command lines given to execute_command.
Commands ==
    { <<>>, <<" ">>, <<"\t", " ", "\n">>, <<"l", "s">>, <<" ", "l", "s", " ", " ", "-", "l", " ">> }

\* execute_command, called again once it has returned: pre-spawn failures, the polling
\* loop with a failing try_wait, and the collection of the output.
NextExec ==
    \/ \E i \in Invs, cmd \in Commands, t \in Timeouts, fault \in {"none", "spawn"} :
           /\ \A j \in Invs : run[j].pc \in {"idle", "done"}
           /\ ExecuteCommand(i, cmd, t, fault)
    \/ \E i \in Invs : Tick(i)
    \/ \E i \in Invs, st \in {"exit0", "exit1", "exit127", "signal"} : ChildExit(i, st)
    \/ \E i \in Invs : Poll(i)
    \/ \E i \in Invs : PollError(i)
    \/ \E i \in Invs : Wake(i)
    \/ \E i \in Invs, fail \in BOOLEAN, e \in StderrValues : Collect(i, fail, e)

SpecExec == InitRunners /\ [][NextExec]_vars

\* The languages run_code is asked for.
Languages ==
    { <<>>, <<"r", "u", "b", "y">>, <<"P", "y", "t", "h", "o", "n">>, <<"B", "A", "S", "H">>, <<"s", "h">>, <<"z", "s", "h">>,
      <<"n", "o", "d", "e">>, <<"J", "a", "v", "a", "S", "c", "r", "i", "p", "t">>, <<"s", "h", "e", "l", "l">> }

\* run_code from its first line on, one caller at a time, with failing
\* system calls.
NextCode ==
    \/ \E i \in Invs, l \in Languages, t \in Timeouts,
          fault \in {"none", "tempfile", "write", "spawn"} :
           NoneActive /\ RunCode(i, l, t, fault)
    \/ NoneActive /\ RotateCall
    \/ PollSteps
    \/ \E i \in Invs : PollError(i)
    \/ \E fail \in BOOLEAN : AuditSteps(fail)

SpecCode == InitRunners /\ [][NextCode]_vars

\* One caller at a time, no failing system call, and children that start
\* processes of their own or fill their output pipes.
NextPipe ==
    \/ \E i \in Invs, k \in {"cli", "app"}, t \in Timeouts : NoneActive /\ Spawn(i, k, t)
    \/ \E i \in Invs, holds \in BOOLEAN : Descendant(i, holds)
    \/ \E i \in Invs : ChildFills(i)
    \/ NoneActive /\ RotateCall
    \/ PollSteps
    \/ \E i \in Invs : Collect(i, FALSE, <<>>)
    \/ \E i \in Invs : ReadPipes(i)
    \/ AuditSteps(FALSE)

SpecPipe == InitRunners /\ [][NextPipe]_vars

\* The exit codes analyze_error_output is given.
ExitCodeValues == {None, Some(0), Some(1), Some(127), Some(-1)}

\* A text of numbered lines, from line lo to line hi, each ended by a line
\* feed; `mark` starts every line.
RECURSIVE NumberedLines(_, _, _)
NumberedLines(mark, lo, hi) ==
    IF lo > hi THEN <<>>
    ELSE IF lo = hi THEN <<mark>> \o Digits(lo) \o <<"\n">>
    ELSE NumberedLines(mark, lo, (lo + hi) \div 2)
             \o NumberedLines(mark, (lo + hi) \div 2 + 1, hi)

\* The audit files read_audit finds: the log missing, empty, of 3 lines, or
\* of 201 lines; the backup missing or of 2 lines.
AuditTexts ==
    { [log |-> log, bak |-> bak] :
        log \in {None, Some(<<>>), Some(NumberedLines("l", 1, 3)),
                 Some(NumberedLines("l", 1, 2) \o <<"\n">> \o <<"e", "n", "d">>),
                 Some(NumberedLines("l", 1, 201))},
        bak \in {None, Some(NumberedLines("b", 1, 2))} }

\* str::len(): the length of a text in bytes of UTF-8; of the characters used
\* here only the accented letter, written "e_acute", takes two bytes.
RECURSIVE ByteLen(_)
ByteLen(s) ==
    IF s = <<>> THEN 0
    ELSE IF Len(s) = 1 THEN (IF s[1] = "e_acute" THEN 2 ELSE 1)
    ELSE LET mid == Len(s) \div 2
         IN  ByteLen(SubSeq(s, 1, mid)) + ByteLen(SubSeq(s, mid + 1, Len(s)))

\* The closure take of append_audit: a text of more than n bytes becomes its
\* first n bytes followed by three dots; the slice &s[..n] panics when byte n
\* is inside a character.
Take(s, n) ==
    IF ByteLen(s) > n
    THEN LET cut == {k \in 0..Len(s) : ByteLen(SubSeq(s, 1, k)) = n}
         IN  IF cut = {} THEN [tag |-> "panic", text |-> <<>>]
             ELSE [tag |-> "Ok",
                   text |-> SubSeq(s, 1, CHOOSE k \in cut : TRUE) \o <<".", ".", ".">>]
    ELSE [tag |-> "Ok", text |-> s]

\* What a child leaves on its standard output or standard error.
CapturedTexts ==
    { <<>>, <<"o", "k">>,
      [k \in 1..1000 |-> "a"], [k \in 1..1001 |-> "a"],
      [k \in 1..999 |-> "a"] \o <<"e_acute", "b">>,
      [k \in 1..600 |-> "e_acute"] }

\* send_ipc: the line written for the client's IpcMessage. serde_json writes
\* the text of message as a JSON string (a line feed becomes backslash n, a
\* quote and a backslash get a backslash before them), and leaves out message
\* and payload when they are None; Some(Value::Null) is written as null.
SerializeIpcMessage(body) ==
    LET RECURSIVE escape(_)
        escape(t) ==
            IF t = <<>> THEN <<>>
            ELSE (CASE Head(t) = "\n" -> <<"\\", "n">>
                    [] Head(t) = "\"" -> <<"\\", "\"">>
                    [] Head(t) = "\\" -> <<"\\", "\\">>
                    [] OTHER -> <<Head(t)>>) \o escape(Tail(t))
        message == IF IsSome(body.message) THEN Some(escape(Unwrap(body.message))) ELSE None
    IN  EnvelopeLine(64 + (IF IsSome(message) THEN Len(Unwrap(message)) ELSE 0),
                     body.kind, message,
                     IF IsSome(body.payload) THEN Unwrap(body.payload) ELSE NoPayload)

\* handle_client: serde_json::from_str::<IpcMessage>(trimmed), with the text
\* of message read back from its JSON string.
DeserializeIpcMessage(line) ==
    LET RECURSIVE unescape(_)
        unescape(t) ==
            IF t = <<>> THEN <<>>
            ELSE IF Head(t) = "\\" /\ Len(t) > 1
            THEN <<IF t[2] = "n" THEN "\n" ELSE t[2]>> \o unescape(Tail(Tail(t)))
            ELSE <<Head(t)>> \o unescape(Tail(t))
        parsed == ParseIpcMessage(line)
    IN  IF IsSome(parsed)
        THEN Some([Unwrap(parsed) EXCEPT
                     !.message = IF IsSome(@) THEN Some(unescape(Unwrap(@))) ELSE None])
        ELSE None

\* The IpcMessage values send_ipc is given.
IpcMessageValues ==
    { [kind |-> k, message |-> m, payload |-> p] :
        k \in {"notify", "ask", "create"},
        m \in {None, Some(<<"h", "i">>), Some(<<"a", "\n", "b">>),
               Some(<<"\\", "n">>), Some(<<"\"", "x", "\"">>)},
        p \in {None} \cup {Some(v) : v \in PayloadValues \ {NoPayload}} }

\* Functions called directly, each with every argument of its bounded sets.
NextFn ==
    \/ \E e \in StderrValues, x \in ExitCodeValues :
           Call("analyze_error_output", <<e, x>>, AnalyzeErrorOutput(e, x))
    \/ \E f \in AuditTexts, n \in {None, Some(0), Some(1), Some(2), Some(3), Some(200), Some(300)} :
           Call("read_audit", <<f, n>>, ReadAudit(f, n))
    \/ \E s \in CapturedTexts :
           Call("take", <<s, 1000>>, Take(s, 1000))
    \/ \E body \in IpcMessageValues :
           Call("send_ipc", <<body>>,
                [line |-> SerializeIpcMessage(body),
                 read |-> DeserializeIpcMessage(SerializeIpcMessage(body))])

SpecFn == InitCli /\ [][NextFn]_vars

\* ------------------------------------------------------------------ claims
\* The responses written on connection c that answer its k-th line.
ResponsesTo(c, k) == {i \in 1..Len(out[c]) : out[c][i].req = k}

\* The handler of c has finished with its k-th line.
Handled(c, k) == k < Len(reqs[c]) \/ connPc[c] \in {"idle", "closed"}

DevModeError == ErrorResponse("create command only available in DEV_MODE")

\* The line is a create Envelope that reaches the dispatcher.
IsCreateRequest(line) ==
    line.form = "envelope" /\ line.kind = "create" /\ line.len <= MAX_MESSAGE_SIZE

\* A step of the handler of c while it handles a create Envelope.
CreateStep(c) ==
    /\ connPc[c] \in {"handle", "create_msg", "write"}
    /\ cur[c].kind = "create"
    /\ connPc'[c] # connPc[c]

\* C2: when the server started with the dev-mode flag off, every create
\* Envelope is answered with the DEV_MODE error, whatever its payload and
\* whatever DEV_MODE is set to later, and no step of its handling changes the
\* conversations or the messages.
C2_GateClosed ==
    /\ [](\A c \in Conns : \A i \in 1..Len(out[c]) :
            (server = "listening" /\ ~dev_mode_enabled
                /\ IsCreateRequest(reqs[c][out[c][i].req]))
                => out[c][i].resp = DevModeError)
    /\ [][\A c \in Conns :
            (~dev_mode_enabled /\ CreateStep(c)) => UNCHANGED <<convs, msgs>>]_vars

\* C2 witness: the server started with the flag off, DEV_MODE now holds an
\* enabling value, and a create with a payload naming an existing
\* conversation has been answered.
C2_Witness ==
    /\ server = "listening" /\ ~dev_mode_enabled /\ DevModeFlag(envDevMode)
    /\ \E c \in Conns : \E i \in 1..Len(out[c]) :
          /\ IsCreateRequest(reqs[c][out[c][i].req])
          /\ reqs[c][out[c][i].req].payload.cid.tag = "str"
          /\ ConvExists(convs, reqs[c][out[c][i].req].payload.cid.id)

\* A create Envelope with a valid payload: a JSON object whose
\* conversation_id, when present, is a string naming an existing conversation.
ValidCreate(line) ==
    /\ IsCreateRequest(line)
    /\ line.payload.tag = "obj"
    /\ \/ line.payload.cid.tag = "none"
       \/ line.payload.cid.tag = "str" /\ line.payload.cid.id # UnknownId

RowsBy(table, c, k) == {j \in 1..Len(table) : table[j].by = <<c, k>>}

Returned(i) == run[i].pc = "done"

\* Invocation i has returned Ok(result).
ReturnedOk(i) == Returned(i) /\ run[i].result = "Ok"

\* The last try_wait of invocation i found the child running at a time the
\* runner counts as past the timeout.
RunningAtLatePoll(i) ==
    /\ run[i].lastPollAlive
    /\ IF run[i].kind = "cli" THEN run[i].lastPollAtDeadline
                              ELSE run[i].lastPollPastDeadline

\* C4 as stated: a child that has not exited when the timeout elapses always
\* gives a result with timed_out = true and exit_code = None.
C4_Original ==
    \A i \in Invs :
        (ReturnedOk(i) /\ run[i].aliveAtDeadline = "alive") =>
            (run[i].timed_out /\ run[i].exit_code = None)

\* C4 (amended): a child found running by the poll made once the timeout has
\* elapsed (elapsed >= timeout in execute_command, elapsed > timeout in
\* run_code) gives timed_out = true and exit_code = None, and a result is
\* timed out only then; an invocation that spawned a child ends in exactly
\* one of Completed (the child was reaped by try_wait, not killed), TimedOut
\* (the child was killed) or an error.
C4_TimeoutAtPoll ==
    \A i \in Invs :
        /\ Returned(i) => run[i].result \in {"Ok", "Err"}
        /\ ReturnedOk(i) =>
              /\ RunningAtLatePoll(i) <=> run[i].timed_out
              /\ run[i].timed_out => (run[i].exit_code = None /\ run[i].killed)
              /\ ~run[i].timed_out =>
                    (~run[i].killed /\ run[i].child = "reaped"
                        /\ run[i].status \in {"exit0", "exit1", "signal"})

\* C4 witness: run_code has returned a timed-out result for a child that was
\* running when the timeout elapsed.
C4_Witness ==
    \E i \in Invs :
        /\ ReturnedOk(i) /\ run[i].timed_out /\ run[i].exit_code = None
        /\ run[i].aliveAtDeadline = "alive" /\ run[i].kind = "app"

\* C5 as stated: exit_code is None if and only if timed_out is true.
C5_Original ==
    \A i \in Invs :
        ReturnedOk(i) => (run[i].exit_code = None <=> run[i].timed_out)

\* C5 (amended): a timed-out result never carries an exit code; a result that
\* is not timed out carries Some exit code exactly when the child exited by
\* itself, and None when a signal ended it.
C5_ExitCodeNone ==
    \A i \in Invs :
        ReturnedOk(i) =>
            /\ run[i].timed_out => run[i].exit_code = None
            /\ ~run[i].timed_out =>
                  /\ run[i].exit_code = None <=> run[i].status = "signal"
                  /\ run[i].status = "exit0" => run[i].exit_code = Some(0)
                  /\ run[i].status = "exit1" => run[i].exit_code = Some(1)

\* C5 witness: a result that is not timed out and has no exit code, because a
\* signal ended the child.
C5_Witness ==
    \E i \in Invs :
        /\ ReturnedOk(i) /\ ~run[i].timed_out
        /\ run[i].status = "signal" /\ run[i].exit_code = None

\* C6: when a runner returns a timed-out result the child has been killed and
\* reaped, in execute_command and in run_code.
C6_KilledAndReaped ==
    \A i \in Invs :
        (ReturnedOk(i) /\ run[i].timed_out) =>
            (run[i].killed /\ run[i].child = "reaped")

\* ------------------------------------------------ claims about the audit log
\* append_audit of invocation i has done its work and is about to return.
Appended(i) == run[i].pc = "audit_ret"

\* The log was over the threshold when append_audit of invocation i began.
WasOverThreshold(i) ==
    IsSome(run[i].preLog) /\ FileSize(Unwrap(run[i].preLog)) > MAX_LOG_BYTES

\* A step leaves the content of the backup alone or replaces the backup by
\* the file that was the log; it never adds to what the backup holds.
BackupOnlyReplaced ==
    (bakIno' # 0 /\ logIno # bakIno') =>
        (bakIno' = bakIno /\ inodes'[bakIno'] = inodes[bakIno])

\* C7: when the log is over 1 MiB as append_audit is called, then after the
\* call the backup holds exactly what the log held before and the log holds
\* only the new record; a rotation replaces the backup and nothing is ever
\* appended to it.
C7_Rotation ==
    /\ [](\A i \in Invs :
            (Appended(i) /\ WasOverThreshold(i)) =>
                /\ FileContent(bakIno) = run[i].preLog
                /\ FileContent(logIno) = Some(<<Entry(i)>>))
    /\ [][BackupOnlyReplaced]_vars

\* C7 witness: append_audit has rotated a log that was over the threshold
\* while an older backup existed, and the older backup's content is gone.
C7_Witness ==
    \E i \in Invs :
        /\ Appended(i) /\ WasOverThreshold(i) /\ IsSome(run[i].preBak)
        /\ FileContent(bakIno) = run[i].preLog
        /\ FileContent(bakIno) # run[i].preBak
        /\ FileContent(logIno) = Some(<<Entry(i)>>)

\* What the two files hold after one append_audit that runs alone on files
\* holding fs: a log over the threshold becomes the backup and the record
\* starts a new log, otherwise the record goes to the end of the log.
SerialAppend(fs, i) ==
    IF IsSome(fs.log) /\ FileSize(Unwrap(fs.log)) > MAX_LOG_BYTES
    THEN [log |-> Some(<<Entry(i)>>), bak |-> fs.log]
    ELSE [log |-> Some((IF IsSome(fs.log) THEN Unwrap(fs.log) ELSE <<>>)
                            \o <<Entry(i)>>),
          bak |-> fs.bak]

\* What the two files can hold after the invocations of S have appended one
\* after the other, in any order.
RECURSIVE SerialOutcomes(_, _)
SerialOutcomes(fs, S) ==
    IF S = {} THEN {fs}
    ELSE UNION {SerialOutcomes(SerialAppend(fs, i), S \ {i}) : i \in S}

\* The invocations whose append_audit has returned.
Appenders == {i \in Invs : run[i].auditCalls = 1 /\ run[i].pc \in {"idle", "done"}}

\* C8: when invocations append concurrently, what the log and the backup
\* hold in the end is what some serial order of the appends gives.
C8_Serializable ==
    (rot.calls = 0 /\ \A i \in Invs : run[i].pc \in {"idle", "done"}) =>
        [log |-> FileContent(logIno), bak |-> FileContent(bakIno)]
            \in SerialOutcomes(fs0, Appenders)

InAudit(i) ==
    run[i].pc \in {"audit_meta", "audit_remove", "audit_rename", "audit_open",
                   "audit_write", "audit_ret"}

RECURSIVE CountIn(_, _)
CountIn(content, e) ==
    IF content = <<>> THEN 0
    ELSE (IF Head(content) = e THEN 1 ELSE 0) + CountIn(Tail(content), e)

RECURSIVE RecordsUpTo(_, _)
RecordsUpTo(n, e) ==
    IF n = 0 THEN 0 ELSE CountIn(inodes[n], e) + RecordsUpTo(n - 1, e)

RecordsOf(i) == RecordsUpTo(Len(inodes), Entry(i))

FramingError(c, k) ==
    /\ reqs[c][k].form # "blank"
    /\ reqs[c][k].len > MAX_MESSAGE_SIZE \/ ~IsSome(ParseIpcMessage(reqs[c][k]))

\* C11: a framing error never ends the connection: a line over the cap is
\* answered with exactly one "Message too large", a line that is no Envelope
\* with exactly one "Invalid JSON", and the handler goes on reading.
C11_FramingErrorsAnswered ==
    \A c \in Conns : \A k \in 1..Len(reqs[c]) :
        FramingError(c, k) =>
            /\ \E i \in 1..Len(out[c]) :
                  /\ ResponsesTo(c, k) = {i}
                  /\ out[c][i].resp =
                        ErrorResponse(IF reqs[c][k].len > MAX_MESSAGE_SIZE
                                      THEN "Message too large" ELSE "Invalid JSON")
            /\ (k = Len(reqs[c]) /\ ~peerClosed[c]) => connPc[c] # "closed"

\* The kinds handle_message knows.
KnownKinds == {"notify", "ask", "last", "create"}

\* The k-th line read on connection c is an Envelope whose kind is in K.
EnvelopeOfKind(c, k, K) ==
    /\ IsSome(ParseIpcMessage(reqs[c][k]))
    /\ reqs[c][k].len <= MAX_MESSAGE_SIZE
    /\ Unwrap(ParseIpcMessage(reqs[c][k])).kind \in K

\* The handler of connection c finishes dispatching an Envelope in this step.
Dispatches(c) == connPc[c] = "handle" /\ connPc'[c] # "handle"

\* C12: an Envelope of an unknown kind is answered with {status: ok} and no
\* data, emits no UI event and leaves the conversation store unchanged.
C12_UnknownKindInert ==
    /\ [](\A c \in Conns : \A k \in 1..Len(reqs[c]) :
            (IsSome(ParseIpcMessage(reqs[c][k]))
                /\ reqs[c][k].len <= MAX_MESSAGE_SIZE
                /\ Unwrap(ParseIpcMessage(reqs[c][k])).kind \notin KnownKinds) =>
                    \A i \in ResponsesTo(c, k) : out[c][i].resp = OkEmpty)
    /\ [][\A c \in Conns :
            (Dispatches(c) /\ cur[c].kind \notin KnownKinds) =>
                (events' = events /\ convs' = convs /\ msgs' = msgs)]_vars

\* C12 witness: an Envelope of kind "ping" has been answered with {status: ok}
\* while the store holds a conversation and no event was emitted.
C12_Witness ==
    \E c \in Conns : \E k \in 1..Len(reqs[c]) :
        /\ IsSome(ParseIpcMessage(reqs[c][k])) /\ reqs[c][k].kind = "ping"
        /\ \E i \in ResponsesTo(c, k) : out[c][i].resp = OkEmpty
        /\ events = <<>> /\ convs # <<>>

\* The UI event the claim expects for an Envelope: the notification text for
\* notify; for ask the payload when there is one, otherwise the message.
ExpectedEvent(msg) ==
    IF msg.kind = "ask" /\ msg.payload # None
    THEN [name |-> "cli://ask", text |-> "", payload |-> msg.payload]
    ELSE [name |-> IF msg.kind = "ask" THEN "cli://ask" ELSE "cli://notify",
          text |-> IF msg.message = None THEN "" ELSE msg.message[1],
          payload |-> None]

\* C14: notify and ask are fire-and-forget: dispatching one emits exactly one
\* UI event (for ask the payload when present, otherwise the message), leaves
\* the conversation store alone and goes straight to writing {status: ok}
\* with no data, whatever the store holds.
C14_FireAndForget ==
    /\ [](\A c \in Conns : \A k \in 1..Len(reqs[c]) :
            EnvelopeOfKind(c, k, {"notify", "ask"}) =>
                \A i \in ResponsesTo(c, k) : out[c][i].resp = OkEmpty)
    /\ [][\A c \in Conns :
            (Dispatches(c) /\ cur[c].kind \in {"notify", "ask"}) =>
                /\ events' = Append(events, ExpectedEvent(cur[c]))
                /\ connPc'[c] = "write" /\ resp'[c] = OkEmpty
                /\ convs' = convs /\ msgs' = msgs]_vars

\* C14 witness: on one connection an ask carrying a payload was answered with
\* {status: ok}, its payload went out as the UI event, and the last that
\* followed was answered "No messages found".
C14_Witness ==
    \E c \in Conns :
        /\ Len(reqs[c]) = 2 /\ Len(out[c]) = 2
        /\ reqs[c][1].kind = "ask" /\ reqs[c][1].payload.tag = "obj"
        /\ out[c][1].resp = OkEmpty
        /\ events = <<[name |-> "cli://ask", text |-> "", payload |-> Some(reqs[c][1].payload)]>>
        /\ reqs[c][2].kind = "last"
        /\ out[c][2].resp = ErrorResponse("No messages found")

\* Conversation number i is a most recently updated one among those not
\* deleted.
MostRecentLive(i) ==
    /\ ~convs[i].deleted
    /\ \A j \in 1..Len(convs) :
          ~convs[j].deleted => convs[j].updated_at <= convs[i].updated_at

\* Message number k is a live assistant message of conversation number i.
LiveAssistantIn(k, i) ==
    /\ msgs[k].conversation_id = convs[i].id
    /\ msgs[k].role = "assistant"
    /\ ~msgs[k].deleted

SomeRequestFailed ==
    \E k \in 1..Len(cli.sentReqs) : cli.sentReqs[k].outcome \in {"transport", "error"}

\* C15: a CLI command one of whose requests meets a transport failure or gets
\* a Response with status error prints a diagnostic on the error stream and
\* exits with status 1; exit status 0 occurs only when every request
\* succeeded.
C15_FailuresExitOne ==
    cli.pc = "exited" =>
        /\ SomeRequestFailed => (cli.exit = 1 /\ cli.errDiag)
        /\ cli.exit = 0 => ~SomeRequestFailed

\* ---- C16
\* The code the child reported when it exited by itself.
ReportedCode(status) ==
    CASE status = "exit1" -> Some(1)
      [] status = "exit127" -> Some(127)
      [] OTHER -> Some(0)

\* execute_command has returned for a command that was spawned and exited by
\* itself with a non-zero code before the timeout.
FailedByItself(i) ==
    /\ run[i].kind = "cli"
    /\ run[i].pc = "done"
    /\ run[i].status \in {"exit1", "exit127"}
    /\ run[i].aliveAtDeadline # "alive"

OnlyWhitespace(command) ==
    \A k \in 1..Len(command) : command[k] \in {" ", "\t", "\n"}

\* The record of an invocation that returned Err before a process existed:
\* no child, no turn of the polling loop, no result fields.
Refused(i, kind, error) ==
    run[i] = [NoRun EXCEPT !.kind = kind, !.pc = "done", !.arg = run[i].arg,
                           !.result = "Err", !.error = error,
                           !.tmpCreated = run[i].tmpCreated]

\* C17: execute_command with a command that is empty or only whitespace
\* returns the error "Empty command" and no process is spawned; when the
\* spawn fails it returns an error and the polling loop is not entered.
C17_PreSpawnFailures ==
    \A i \in Invs :
        run[i].kind = "cli" =>
            /\ (IsSome(run[i].arg) /\ OnlyWhitespace(Unwrap(run[i].arg)))
                   => Refused(i, "cli", <<"Empty command">>)
            /\ run[i].error = <<"Empty command">>
                   => IsSome(run[i].arg) /\ OnlyWhitespace(Unwrap(run[i].arg))
            /\ (run[i].error # <<>> /\ run[i].error[1] = "Failed to spawn command")
                   => Refused(i, "cli", run[i].error)

C17_Witness ==
    \E i, j \in Invs :
        /\ run[i].kind = "cli" /\ run[i].arg = Some(<<"\t", " ", "\n">>)
        /\ run[i].error = <<"Empty command">>
        /\ run[j].kind = "cli" /\ run[j].result = "Err"
        /\ run[j].error # <<>> /\ run[j].error[1] = "Failed to spawn command"

\* ---- C18
\* The whitelist of the claim.
Whitelist ==
    {<<"b", "a", "s", "h">>, <<"s", "h">>, <<"z", "s", "h">>, <<"p", "y", "t", "h", "o", "n">>, <<"n", "o", "d", "e">>, <<"j", "a", "v", "a", "s", "c", "r", "i", "p", "t">>}

\* C18: run_code with a language that is not on the whitelist, letter case
\* ignored, returns an error containing "Unsupported language", and there is
\* no temporary file, no process and no audit record; a language on the
\* whitelist in any letter case is not refused in this way.
C18_UnsupportedLanguage ==
    \A i \in Invs :
        (run[i].kind = "app" /\ IsSome(run[i].arg)) =>
            IF ToLower(Unwrap(run[i].arg)) \notin Whitelist
            THEN /\ Refused(i, "app", run[i].error)
                 /\ Contains(run[i].error, <<"Unsupported language">>)
                 /\ ~run[i].tmpCreated
                 /\ run[i].child = "none"
                 /\ run[i].auditCalls = 0
                 /\ RecordsOf(i) = 0
            ELSE ~Contains(run[i].error, <<"Unsupported language">>)

C18_Witness ==
    \E i \in Invs :
        /\ run[i].kind = "app"
        /\ run[i].arg = Some(<<"r", "u", "b", "y">>)
        /\ run[i].result = "Err"
        /\ Contains(run[i].error, <<"Unsupported language">>)

\* ---- C19
\* execute_command has returned an ExecutionResult.
ResultOf(i) ==
    run[i].kind = "cli" /\ run[i].pc = "done" /\ run[i].result = "Ok"

\* C19: in every result of execute_command, error_summary is present exactly
\* when the exit code is not 0 (a missing exit code included) or stderr is
\* not empty.
C19_SummaryPresence ==
    \A i \in Invs :
        ResultOf(i) =>
            (IsSome(run[i].error_summary)
                 <=> (run[i].exit_code # Some(0) \/ run[i].stderr # <<>>))

C19_Witness ==
    \E i, j \in Invs :
        /\ ResultOf(i) /\ run[i].exit_code = Some(0) /\ run[i].stderr # <<>>
        /\ IsSome(run[i].error_summary)
        /\ ResultOf(j) /\ run[j].exit_code = Some(0) /\ run[j].stderr = <<>>
        /\ run[j].error_summary = None

\* ---- C20
\* stderr names a missing command or file, in any letter case.
NotFoundInStderr(stderr) ==
    \/ Contains(ToLower(stderr), <<"c", "o", "m", "m", "a", "n", "d", " ", "n", "o", "t", " ", "f", "o", "u", "n", "d">>)
    \/ Contains(ToLower(stderr), <<"n", "o", " ", "s", "u", "c", "h", " ", "f", "i", "l", "e">>)

\* C20: when stderr contains "command not found" or "no such file" in any
\* letter case and the exit code c is not 0, the summary contains "Process
\* exited with code c" and the not-found advisory; two results with the same
\* stderr and exit code have the same summary.
C20_Classifier ==
    /\ \A i \in Invs :
           (/\ ResultOf(i)
            /\ NotFoundInStderr(run[i].stderr)
            /\ IsSome(run[i].exit_code) /\ Unwrap(run[i].exit_code) # 0) =>
               /\ IsSome(run[i].error_summary)
               /\ Contains(Unwrap(run[i].error_summary),
                           <<"Process exited with code ">>
                               \o Digits(Unwrap(run[i].exit_code)))
               /\ Contains(Unwrap(run[i].error_summary),
                           <<"Command or file not found - check spelling and PATH">>)
    /\ \A i, j \in Invs :
           (/\ ResultOf(i) /\ ResultOf(j)
            /\ run[i].stderr = run[j].stderr
            /\ run[i].exit_code = run[j].exit_code) =>
               run[i].error_summary = run[j].error_summary

C20_Witness ==
    \E i, j \in Invs :
        /\ ResultOf(i)
        /\ run[i].stderr = <<"s", "h", ":", " ", "l", "s", ":", " ", "C", "o", "m", "m", "a", "n", "d", " ", "N", "o", "t", " ", "F", "o", "u", "n", "d">>
        /\ run[i].exit_code = Some(127)
        /\ ResultOf(j) /\ i # j
        /\ run[j].stderr = run[i].stderr /\ run[j].exit_code = run[i].exit_code

\* ---- C21
\* The sentences of the summary, in the order of the source: one for a
\* non-zero exit code, with `detected` one for a stderr that is not empty,
\* one for each pattern found in stderr whatever its letter case.
Sentences(stderr, exit_code, detected) ==
    LET has(pattern) == Contains(ToLower(stderr), pattern)
    IN  (IF IsSome(exit_code) /\ Unwrap(exit_code) # 0
         THEN << <<"Process exited with code ">> \o Digits(Unwrap(exit_code)) >>
         ELSE <<>>)
        \o (IF detected /\ stderr # <<>>
            THEN << <<"Error output detected">> >> ELSE <<>>)
        \o (IF has(<<"p", "e", "r", "m", "i", "s", "s", "i", "o", "n", " ", "d", "e", "n", "i", "e", "d">>)
            THEN << <<"Permission issue - try with sudo or check file permissions">> >>
            ELSE <<>>)
        \o (IF has(<<"c", "o", "m", "m", "a", "n", "d", " ", "n", "o", "t", " ", "f", "o", "u", "n", "d">>) \/ has(<<"n", "o", " ", "s", "u", "c", "h", " ", "f", "i", "l", "e">>)
            THEN << <<"Command or file not found - check spelling and PATH">> >>
            ELSE <<>>)
        \o (IF has(<<"c", "o", "n", "n", "e", "c", "t", "i", "o", "n">>) /\ has(<<"r", "e", "f", "u", "s", "e", "d">>)
            THEN << <<"Connection refused - check if service is running">> >>
            ELSE <<>>)
        \o (IF has(<<"o", "u", "t", " ", "o", "f", " ", "m", "e", "m", "o", "r", "y">>) \/ has(<<"o", "o", "m">>)
            THEN << <<"Memory issue - consider freeing up memory or using less memory-intensive options">> >>
            ELSE <<>>)

\* The sentences put together with "; " between them, or the fallback
\* sentence when there is none.
SummaryOf(sentences) ==
    IF sentences = <<>>
    THEN <<"Command completed but may have issues">>
    ELSE LET sep(k) == IF k = 1 THEN <<>> ELSE <<"; ">>
             RECURSIVE upTo(_)
             upTo(k) == IF k = 0 THEN <<>> ELSE upTo(k - 1) \o sep(k) \o sentences[k]
         IN  upTo(Len(sentences))

\* C21 as stated: the summary is one sentence for each of the five signals
\* found (non-zero exit code, permission denied, not found, connection
\* refused, out of memory), joined by "; ", and nothing else; it is the
\* fallback sentence exactly when none of the five is found.
C21_Original ==
    call.fn = "analyze_error_output" =>
        call.ret = SummaryOf(Sentences(call.args[1], call.args[2], FALSE))

\* C21 amended: a stderr that is not empty is a signal of its own, with the
\* sentence "Error output detected" placed after the exit-code sentence; the
\* summary is one sentence for each of the six signals found, joined by "; ",
\* and the fallback sentence exactly when the exit code is 0 or missing and
\* stderr is empty.
C21_SummarySentences ==
    call.fn = "analyze_error_output" =>
        /\ call.ret = SummaryOf(Sentences(call.args[1], call.args[2], TRUE))
        /\ (call.ret = <<"Command completed but may have issues">>
                <=> (call.args[1] = <<>> /\ call.args[2] \in {None, Some(0)}))

C21_Witness ==
    /\ call.fn = "analyze_error_output"
    /\ call.args = <<<<"O", "u", "t", " ", "o", "f", " ", "m", "e", "m", "o", "r", "y", ":", " ", "c", "o", "n", "n", "e", "c", "t", "i", "o", "n", " ", "r", "e", "f", "u", "s", "e", "d">>, Some(127)>>
    /\ call.ret = <<"Process exited with code ", "1", "2", "7", "; ",
                    "Error output detected", "; ",
                    "Connection refused - check if service is running", "; ",
                    "Memory issue - consider freeing up memory or using less memory-intensive options">>

\* ---- C22
\* The last n elements of a sequence, all of them when it has fewer.
LastN(seq, n) ==
    IF Len(seq) <= n THEN seq ELSE [k \in 1..n |-> seq[Len(seq) - n + k]]

\* C22: read_audit returns the last n lines of the current audit file in
\* their order, all its lines when it has fewer than n, with n = 200 when no
\* number is given, and no line of the backup.
C22_Tail ==
    (call.fn = "read_audit" /\ IsSome(call.args[1].log)) =>
        LET n == IF IsSome(call.args[2]) THEN Unwrap(call.args[2]) ELSE 200
        IN  /\ call.ret.tag = "Ok"
            /\ Lines(call.ret.text) = LastN(Lines(Unwrap(call.args[1].log)), n)
            /\ \A k \in 1..Len(call.ret.text) : call.ret.text[k] # "b"

C22_Witness ==
    /\ call.fn = "read_audit"
    /\ call.args[2] = None
    /\ IsSome(call.args[1].bak)
    /\ IsSome(call.args[1].log)
    /\ Len(Lines(Unwrap(call.args[1].log))) = 201
    /\ Len(Lines(call.ret.text)) = 200
    /\ Lines(call.ret.text)[1] = <<"l", "2">>

\* ---- C23
\* C23: rotate_audit called when the log exists, whatever its size, leaves
\* the backup holding what the log held, with the earlier backup gone and no
\* log; the append that finds no log then starts a log that holds only its
\* own record.
C23_ExplicitRotate ==
    /\ [][(rot.pc = "rename" /\ rot'.pc = "idle" /\ logIno # 0) =>
              /\ rot'.result = "Ok"
              /\ logIno' = 0
              /\ FileContent(bakIno)' = FileContent(logIno)]_vars
    /\ [](\A i \in Invs :
            (Appended(i) /\ run[i].preLog = None) =>
                FileContent(logIno) = Some(<<Entry(i)>>))

\* C23 witness: a log that was not over the threshold has been rotated by
\* rotate_audit over an older backup, and the next append has started a new
\* log.
C23_Witness ==
    \E i \in Invs :
        /\ rot.renamed /\ rot.result = "Ok"
        /\ IsSome(fs0.bak) /\ IsSome(fs0.log)
        /\ FileSize(Unwrap(fs0.log)) <= MAX_LOG_BYTES
        /\ FileContent(bakIno) = fs0.log
        /\ Appended(i) /\ run[i].preLog = None /\ run[i].preBak = fs0.log
        /\ FileContent(logIno) = Some(<<Entry(i)>>)

\* ---- C24
\* C24: whatever was captured, the text written to the record has at most 1000
\* characters, and a captured text of at most 1000 characters is written
\* unchanged.
C24_LoggedOutputBounded ==
    call.fn = "take" =>
        /\ call.ret.tag = "Ok"
        /\ Len(call.ret.text) <= call.args[2]
        /\ (Len(call.args[1]) <= call.args[2] => call.ret.text = call.args[1])

C26_ErrorResponseAtWorst ==
    /\ (\E c \in Conns : connPc[c] # "none") => server = "listening"
    /\ \A c \in Conns : \A k \in 1..Len(reqs[c]) :
          (Handled(c, k) /\ reqs[c][k].form # "blank") =>
              Cardinality(ResponsesTo(c, k)) = 1

\* ---- C27
\* C27: the line written for an IpcMessage is one Envelope object with no raw
\* line feed inside, and the server reads back from it the same kind, the
\* same message and the same payload, a null payload included.
C27_RoundTrip ==
    call.fn = "send_ipc" =>
        /\ call.ret.line.form = "envelope"
        /\ IsSome(call.ret.line.message) =>
              \A k \in 1..Len(Unwrap(call.ret.line.message)) :
                  Unwrap(call.ret.line.message)[k] # "\n"
        /\ call.ret.read = Some(call.args[1])

\* ---- C28
\* C28: a client started without the development-mode flag in its
\* environment never sends a create Envelope.
C28_CreateNeedsDevMode ==
    ~DevModeFlag(cli.env) =>
        \A k \in 1..Len(cli.sentReqs) : cli.sentReqs[k].kind # "create"

\* ---- C29
\* C29: a runner that has killed its child at the timeout is never held back
\* by the output pipes: it is not found reading them while a descendant of
\* the child still holds their writing side.
C29_NothingOutlivesTheChild ==
    \A i \in Invs :
        run[i].killed => ~(run[i].pc \in {"collect", "read"} /\ run[i].pipeHeld)

\* ---- C30
\* C30: the step in which a handler finds the end of the stream or a failed
\* read writes no Response; and once the handler has ended, nothing more is
\* written on its connection and no line of it is read or dispatched,
\* whatever the peer still sends.
C30_LoopEndsQuietly ==
    [][\A c \in Conns :
          /\ (connPc[c] = "idle" /\ connPc'[c] = "closed") =>
                (out'[c] = out[c] /\ processed'[c] = processed[c])
          /\ connPc[c] = "closed" =>
                /\ connPc'[c] = "closed"
                /\ out'[c] = out[c] /\ reqs'[c] = reqs[c]
                /\ processed'[c] = processed[c]]_vars

\* C30 witness: one handler ended on a failed read (its read timed out after
\* it had answered an Envelope) and the peer has written again since; another
\* ended on the end of its stream.
C30_Witness ==
    \E c, d \in Conns :
        /\ connPc[c] = "closed" /\ ~peerClosed[c]
        /\ Len(reqs[c]) = 1 /\ reqs[c][1].form = "envelope" /\ Len(out[c]) = 1
        /\ inbox[c] # <<>>
        /\ connPc[d] = "closed" /\ peerClosed[d]

\* ---- C31
\* C31: on the connection of a client call there is never more than the one
\* Envelope the call wrote, and never more than one Response, which answers
\* that Envelope: it is the line the call reads.
C31_OneCallOneConnection ==
    \A c \in Conns :
        /\ Len(reqs[c]) + Len(inbox[c]) <= 1
        /\ Len(out[c]) <= 1
        /\ \A i \in 1..Len(out[c]) :
              out[c][i].req = 1 /\ reqs[c][1].form = "envelope"

\* C31 witness: two calls, each on its own connection, one a create and one
\* a last, have each been answered.
C31_Witness ==
    \E c, d \in Conns :
        /\ c # d
        /\ Len(out[c]) = 1 /\ reqs[c][1].kind = "create"
        /\ Len(out[d]) = 1 /\ reqs[d][1].kind = "last"

\* The call on connection c was a create and has been answered with the
\* created message m.
CreateSucceeded(c, m) ==
    /\ Len(out[c]) = 1 /\ reqs[c][1].kind = "create"
    /\ out[c][1].resp = OkMessage(m)

\* ---- C32
\* C32: once the create call of a client has been answered with the created
\* message, a `last` call handled afterwards on another connection is
\* answered with that same message.
C32_LastReturnsCreated ==
    [][\A c, d \in Conns : \A k \in 1..Len(msgs) :
          (/\ c # d
           /\ CreateSucceeded(c, msgs[k])
           /\ connPc[d] = "handle" /\ cur[d].kind = "last"
           /\ connPc'[d] = "write")
              => resp'[d] = OkMessage(msgs[k])]_vars

\* ---- C33
\* C33: a child blocked on a full output pipe stays blocked as long as the
\* runner polls, and unless a signal from elsewhere ends it the poll never
\* finds it exited: the result is timed out, without an exit code, after the
\* runner's own kill.
C33_FullPipeTimesOut ==
    /\ [](\A i \in Invs :
            (ReturnedOk(i) /\ run[i].pipeFull
                /\ ~(run[i].status = "signal" /\ ~run[i].killed)) =>
                (run[i].timed_out /\ run[i].killed /\ run[i].exit_code = None))
    /\ [][\A i \in Invs :
            (run[i].pipeFull /\ run[i].child = "running" /\ run'[i].child = "zombie")
                => run'[i].status = "signal"]_vars

\* C33 witness: execute_command has returned a timed-out result for a child
\* that had filled its pipe.
C33_Witness ==
    \E i \in Invs :
        /\ ReturnedOk(i) /\ run[i].kind = "cli" /\ run[i].pipeFull
        /\ run[i].timed_out /\ run[i].killed /\ run[i].exit_code = None

\* ---- C34
\* C34: a runner whose last poll found the child exited reports it completed,
\* with the exit code of its status and without killing it, however much
\* time had passed; a result is timed out only when the last poll found the
\* child running with the timeout elapsed.
C34_StatusBeforeClock ==
    \A i \in Invs :
        ReturnedOk(i) =>
            /\ ~run[i].lastPollAlive =>
                  /\ ~run[i].timed_out /\ ~run[i].killed
                  /\ run[i].exit_code = StatusCode(run[i].status)
            /\ run[i].timed_out =>
                  (RunningAtLatePoll(i) /\ run[i].exit_code = None)

\* C34 witness: the poll that found the child exited with code 0 was made
\* after the timeout had elapsed, and the result is completed with code 0.
C34_Witness ==
    \E i \in Invs :
        /\ ReturnedOk(i) /\ ~run[i].lastPollAlive /\ run[i].lastPollPastDeadline
        /\ run[i].aliveAtDeadline = "alive"
        /\ ~run[i].timed_out /\ run[i].exit_code = Some(0)

\* A line the handler reads as blank: empty after trim_end and not over the
\* size cap.
ReadsBlank(c) ==
    /\ Len(reqs'[c]) = Len(reqs[c]) + 1
    /\ reqs'[c][Len(reqs'[c])].form = "blank"
    /\ reqs'[c][Len(reqs'[c])].len <= MAX_MESSAGE_SIZE

\* C35: a line that is empty or only whitespace, and not over the size cap,
\* is skipped: the handler writes no Response for it, does not count it as
\* processed, and goes on reading the same connection; while the handler
\* waits with nothing to read, nothing is written to the client.
C35_BlankLineSkipped ==
    /\ [][\A c \in Conns :
             ReadsBlank(c) =>
                 /\ out'[c] = out[c]
                 /\ processed'[c] = processed[c]
                 /\ connPc'[c] = "idle"]_vars
    /\ [](\A c \in Conns : \A k \in 1..Len(reqs[c]) :
             (reqs[c][k].form = "blank" /\ reqs[c][k].len <= MAX_MESSAGE_SIZE)
                 => ResponsesTo(c, k) = {})
    /\ [][\A c \in Conns :
             (connPc[c] = "idle" /\ inbox[c] = <<>>) => out'[c] = out[c]]_vars

\* A blank line was skipped and the Envelope sent after it on the same
\* connection was answered; only the Envelope was counted.
C35_Witness ==
    \E c \in Conns :
        /\ Len(reqs[c]) = 2
        /\ reqs[c][1].form = "blank"
        /\ reqs[c][2].form = "envelope"
        /\ ResponsesTo(c, 1) = {}
        /\ ResponsesTo(c, 2) # {}
        /\ processed[c] = 1

\* ---- C36
\* rotate_audit returns: its rename has just been tried.
RotateReturns == rot.pc = "rename" /\ rot'.pc = "idle"

\* No append_audit has been entered since the program started.
NoAppendYet == \A i \in Invs : run[i].auditCalls = 0

\* C36 as stated: whenever rotate_audit returns an error the previous backup
\* is gone, and two calls of rotate_audit with no append between them leave
\* neither a log nor a backup.
C36_Original ==
    /\ [][(RotateReturns /\ rot'.result = "Err") => bakIno' = 0]_vars
    /\ [](rot.calls = 2 /\ rot.pc = "idle" /\ NoAppendYet =>
             (logIno = 0 /\ bakIno = 0))

\* C36: rotate_audit tries to remove the backup before it renames the log.
\* When the rename fails it returns an error with the log as it was, and the
\* backup is gone if the removal succeeded (it stays if the removal failed
\* too). The rename fails whenever there is no log. A rotate_audit that
\* follows a successful one with no append in between returns an error and
\* leaves no log, and no backup either if its removal succeeded.
C36_RotateNotAtomic ==
    /\ [][(RotateReturns /\ rot'.result = "Err") =>
              /\ logIno' = logIno
              /\ bakIno' = (IF rot.removeFailed THEN bakIno ELSE 0)]_vars
    /\ [][(RotateReturns /\ logIno = 0) => rot'.result = "Err"]_vars
    /\ [](rot.calls = 2 /\ rot.pc = "idle" /\ rot.prev = "Ok" /\ NoAppendYet =>
             /\ rot.result = "Err"
             /\ logIno = 0
             /\ (~rot.removeFailed => bakIno = 0))

\* C36 witness: a log and an older backup were there; the first rotate_audit
\* succeeded, the second, with no append in between, returned an error and
\* neither file is left.
C36_Witness ==
    /\ IsSome(fs0.log) /\ IsSome(fs0.bak)
    /\ rot.calls = 2 /\ rot.pc = "idle" /\ NoAppendYet
    /\ rot.prev = "Ok" /\ rot.result = "Err" /\ ~rot.removeFailed
    /\ logIno = 0 /\ bakIno = 0

\* ---- C37
\* The commands whose first request goes through send_ipc.
SendIpcCommands == {"notify", "ask", "ask_gui", "create"}

\* C37: send_ipc returns Ok whenever connect, write and the read of one line
\* complete, whatever was read: after a reply with status error, and after a
\* read of zero bytes, notify ends with status 0, ask --gui prints its
\* message and ends with status 0, and ask and create go on to ask for the
\* last message.
C37_SendIpcIgnoresReply ==
    [][\A o \in Outcomes \ {"transport"} :
          (/\ cli.pc = "first" /\ cli.cmd \in SendIpcCommands
           /\ Len(cli'.sentReqs) = 1 /\ cli'.sentReqs[1].outcome = o) =>
              /\ SendIpc(o) = "Ok"
              /\ ~cli'.errDiag
              /\ cli'.exit = 0
              /\ cli'.pc = (IF cli.cmd \in {"ask", "create"} THEN "second" ELSE "exited")]_vars

\* C37 witness: create was answered with status error and the client went on
\* to ask for the last message, whose request met a closed connection.
C37_Witness ==
    /\ cli.cmd = "create" /\ cli.pc = "exited"
    /\ Len(cli.sentReqs) = 2
    /\ cli.sentReqs[1] = [kind |-> "create", outcome |-> "error"]
    /\ cli.sentReqs[2] = [kind |-> "last", outcome |-> "eof"]

\* ---- C38
\* Handler c is between the two steps of a create that named no
\* conversation: its conversation is in the store, its message is not.
BetweenCreateSteps(c) ==
    /\ connPc[c] = "create_msg"
    /\ ~IsSome(CreateConversationId(Unwrap(cur[c].payload)))

\* The conversation handler c created for the line it is handling.
OwnConversation(cs, c) ==
    {i \in 1..Len(cs) : cs[i].by = <<c, Len(reqs[c])>> /\ cs[i].id = convId[c]}

====
